---- MODULE Spec2Model ----
(***************************************************************************)
(* Forecast chart core of stock-prediction-app (frontend): gap-aware line  *)
(* rendering (LineSeries), continuity stitching (ForecastChart), automatic *)
(* note placement (placeNoteAuto) and the reveal animation (ForecastChart  *)
(* reveal effect).                                                         *)
(*                                                                         *)
(* JavaScript numbers are modelled by integers; the inputs are drawn from  *)
(* sets on which every division the code performs is exact, so integer     *)
(* arithmetic computes what the code computes.  Array indices are the      *)
(* code's 0-based indices: element i of an array s is s[i + 1].            *)
(***************************************************************************)
EXTENDS Integers, Sequences, FiniteSets, TLC

\* ------------------------------------------------------------------ bounds
MaxLen == 3
MaxVal == 2

\* ------------------------------------------------------------------ values
\* An entry of a Series: number | null, plus what JavaScript can put there:
\* undefined (a hole or a read past the end) and a non-finite number.
Num(v) == [tag |-> "num", val |-> v]
Null == [tag |-> "null", val |-> 0]
Undefined == [tag |-> "undefined", val |-> 0]
NonFinite == [tag |-> "nonfinite", val |-> 0]

\* s[i] in JavaScript: undefined outside the array.
At(s, i) == IF 0 <= i /\ i < Len(s) THEN s[i + 1] ELSE Undefined

\* v == null (loose equality: null or undefined).
IsNullish(v) == v.tag \in {"null", "undefined"}

\* v == null || !Number.isFinite(v): the entry is a gap.
IsGap(v) == IsNullish(v) \/ v.tag # "num"

Values == {Null, NonFinite} \cup {Num(v) : v \in 0..MaxVal}

SeriesOfLen(n) == [1..n -> Values]

AllSeries == UNION {SeriesOfLen(n) : n \in 0..MaxLen}

\* x || 1
OrOne(x) == IF x = 0 THEN 1 ELSE x

\* createLinear(domain, range): the scale as its four numbers.
createLinear(d0, d1, r0, r1) == [d0 |-> d0, d1 |-> d1, r0 |-> r0, r1 |-> r1]

\* Applying a scale: r0 + (v - d0) * ((r1 - r0) / (d1 - d0 || 1)).
Scale(sc, v) == sc.r0 + ((v - sc.d0) * (sc.r1 - sc.r0)) \div OrOne(sc.d1 - sc.d0)

XY(px, py) == [x |-> px, y |-> py]

\* ------------------------------------------------------- LineSeries (segs)
\* The loop of LineSeries.tsx: runs of consecutive defined points; a gap
\* closes the current run, which is kept only if it has more than one point.
RECURSIVE LineSeriesLoop(_, _, _, _, _, _)
LineSeriesLoop(s, xs, ys, i, segs, curr) ==
    IF i >= Len(s)
    THEN IF Len(curr) > 1 THEN Append(segs, curr) ELSE segs
    ELSE LET v == At(s, i)
         IN IF IsGap(v)
            THEN LineSeriesLoop(s, xs, ys, i + 1,
                     IF Len(curr) > 1 THEN Append(segs, curr) ELSE segs, <<>>)
            ELSE LineSeriesLoop(s, xs, ys, i + 1, segs,
                     Append(curr, XY(Scale(xs, i), Scale(ys, v.val))))

\* A plausible slip: a gap is skipped without closing the run, so the run
\* goes on across it.
RECURSIVE LineSeriesLoopBridging(_, _, _, _, _, _)
LineSeriesLoopBridging(s, xs, ys, i, segs, curr) ==
    IF i >= Len(s)
    THEN IF Len(curr) > 1 THEN Append(segs, curr) ELSE segs
    ELSE LET v == At(s, i)
         IN IF IsGap(v)
            THEN LineSeriesLoopBridging(s, xs, ys, i + 1, segs, curr)
            ELSE LineSeriesLoopBridging(s, xs, ys, i + 1, segs,
                     Append(curr, XY(Scale(xs, i), Scale(ys, v.val))))

LineSeriesSegsBridging(s, xs, ys) == LineSeriesLoopBridging(s, xs, ys, 0, <<>>, <<>>)

\* A plausible slip: a run of a single point is kept.
RECURSIVE LineSeriesLoopKeepingSingles(_, _, _, _, _, _)
LineSeriesLoopKeepingSingles(s, xs, ys, i, segs, curr) ==
    IF i >= Len(s)
    THEN IF Len(curr) > 0 THEN Append(segs, curr) ELSE segs
    ELSE LET v == At(s, i)
         IN IF IsGap(v)
            THEN LineSeriesLoopKeepingSingles(s, xs, ys, i + 1,
                     IF Len(curr) > 0 THEN Append(segs, curr) ELSE segs, <<>>)
            ELSE LineSeriesLoopKeepingSingles(s, xs, ys, i + 1, segs,
                     Append(curr, XY(Scale(xs, i), Scale(ys, v.val))))

LineSeriesSegsKeepingSingles(s, xs, ys) ==
    LineSeriesLoopKeepingSingles(s, xs, ys, 0, <<>>, <<>>)

\* segs of LineSeries.tsx: the sub-paths it draws, each a sequence of points.
LineSeriesSegs(s, xs, ys) == LineSeriesLoop(s, xs, ys, 0, <<>>, <<>>)

\* toPath: "M p0 L p1 L p2 ..." for one sub-path.
toPath(pts) ==
    [k \in 1..Len(pts) |-> [op |-> IF k = 1 THEN "M" ELSE "L", x |-> pts[k].x, y |-> pts[k].y]]

\* ------------------------------------------------ LineSeries (buildPathD)
\* buildPathD of the self-animating LineSeries: one path string, pen up at
\* every gap.  The path is the sequence of its commands.
RECURSIVE buildPathDLoop(_, _, _, _, _, _)
buildPathDLoop(s, xs, ys, i, d, penDown) ==
    IF i >= Len(s)
    THEN d
    ELSE LET v == At(s, i)
         IN IF IsGap(v)
            THEN buildPathDLoop(s, xs, ys, i + 1, d, FALSE)
            ELSE buildPathDLoop(s, xs, ys, i + 1,
                     Append(d, [op |-> IF penDown THEN "L" ELSE "M",
                                x |-> Scale(xs, i), y |-> Scale(ys, v.val)]),
                     TRUE)

\* d || "M 0 0"
buildPathD(s, xs, ys) ==
    LET d == buildPathDLoop(s, xs, ys, 0, <<>>, FALSE)
    IN IF d = <<>> THEN <<[op |-> "M", x |-> 0, y |-> 0]>> ELSE d

\* The line segments an SVG path draws: every "L" joins the previous
\* command's point to its own.
PathSegments(d) ==
    {<<XY(d[k - 1].x, d[k - 1].y), XY(d[k].x, d[k].y)>> : k \in {j \in 2..Len(d) : d[j].op = "L"}}

\* The line segments the sub-paths of LineSeries.tsx draw.
SegsSegments(segs) ==
    UNION {PathSegments(toPath(segs[r])) : r \in 1..Len(segs)}

\* ------------------------------------------------ ForecastChart (stitch)
\* lastActualIndex: the scan down from min(predictStartIndex, n) - 1 for a
\* defined, finite entry of actual; -1 when there is none.
RECURSIVE lastActualScan(_, _)
lastActualScan(act, i) ==
    IF i < 0 THEN -1
    ELSE IF ~IsGap(At(act, i)) THEN i
    ELSE lastActualScan(act, i - 1)

Min(a, b) == IF a <= b THEN a ELSE b

Max(a, b) == IF a >= b THEN a ELSE b

\* A plausible slip: the scan is not bounded by the number of labels.
lastActualIndexUnbounded(act, psi, n) == lastActualScan(act, psi - 1)

lastActualIndexOf(act, psi, n) == lastActualScan(act, Min(psi, n) - 1)

\* lastActualValue: actual[lastActualIndex], or null when the index is -1.
lastActualValueOf(act, lai) == IF lai >= 0 THEN At(act, lai) ELSE Null

\* arr[i] = v on a JavaScript array: a write past the end leaves holes.
SetAt(arr, i, v) ==
    [k \in 1..Max(Len(arr), i + 1) |-> IF k = i + 1 THEN v ELSE At(arr, k - 1)]

\* A plausible slip: no copy is taken (arr aliases data.predicted) and the
\* anchor is written into the caller's array.
buildPredictedInPlace(pred, anchor, lai, lav) ==
    IF ~anchor \/ lai < 0 \/ IsNullish(lav)
    THEN [ref |-> "data.predicted", items |-> pred, caller |-> pred]
    ELSE LET arr == IF IsNullish(At(pred, lai)) THEN SetAt(pred, lai, lav) ELSE pred
         IN [ref |-> "data.predicted", items |-> arr, caller |-> arr]

\* A plausible slip: the anchor is written without looking at what the
\* index already holds.
buildPredictedOverwriting(pred, anchor, lai, lav) ==
    IF ~anchor \/ lai < 0 \/ IsNullish(lav)
    THEN [ref |-> "data.predicted", items |-> pred, caller |-> pred]
    ELSE [ref |-> "arr", items |-> SetAt(pred, lai, lav), caller |-> pred]

\* A plausible slip: the anchor is never copied in.
buildPredictedUnstitched(pred, anchor, lai, lav) ==
    [ref |-> "data.predicted", items |-> pred, caller |-> pred]

\* buildPredictedWithAnchor / predictedForDraw: the series the forecast line
\* is drawn from.  ref is the array the result is (the caller's own array or
\* the fresh copy arr), items what it holds, caller what the caller's array
\* holds once the function has returned.
buildPredictedWithAnchor(pred, anchor, lai, lav) ==
    IF ~anchor \/ lai < 0 \/ IsNullish(lav)
    THEN [ref |-> "data.predicted", items |-> pred, caller |-> pred]
    ELSE LET arr == pred
         IN [ref |-> "arr",
             items |-> IF IsNullish(At(arr, lai)) THEN SetAt(arr, lai, lav) ELSE arr,
             caller |-> pred]

\* ---------------------------------------------------------- notePlacement
\* Distances and scores are non-negative reals.  They are kept exactly, as
\* the fraction n / d of their square (or as infinite), and compared without
\* multiplying the fractions out.
Finite(n, d) == [inf |-> FALSE, n |-> n, d |-> d]

Infinite == [inf |-> TRUE, n |-> 0, d |-> 1]

\* n1 / d1 > n2 / d2 for n1, n2 >= 0 and d1, d2 > 0.
RECURSIVE FracGt(_, _, _, _)
FracGt(n1, d1, n2, d2) ==
    LET q1 == n1 \div d1
        q2 == n2 \div d2
        r1 == n1 % d1
        r2 == n2 % d2
    IN IF q1 # q2 THEN q1 > q2
       ELSE IF r1 = 0 THEN FALSE
       ELSE IF r2 = 0 THEN TRUE
       ELSE FracGt(d2, r2, d1, r1)

\* a > b on distances / scores (Infinity > Infinity is false).
Gt(a, b) ==
    IF a.inf THEN ~b.inf
    ELSE IF b.inf THEN FALSE
    ELSE FracGt(a.n, a.d, b.n, b.d)

\* a < b
Lt(a, b) == Gt(b, a)

LineSeg(p, q) == [x1 |-> p.x, y1 |-> p.y, x2 |-> q.x, y2 |-> q.y]

\* collectSegmentsFromSeries: one segment per pair of consecutive defined
\* entries; prev is <<>> for null.
RECURSIVE collectLoop(_, _, _, _, _, _)
collectLoop(s, xOf, yOf, i, out, prev) ==
    IF i >= Len(s)
    THEN out
    ELSE LET v == At(s, i)
         IN IF IsGap(v)
            THEN collectLoop(s, xOf, yOf, i + 1, out, <<>>)
            ELSE LET p == XY(Scale(xOf, i), Scale(yOf, v.val))
                 IN collectLoop(s, xOf, yOf, i + 1,
                        IF prev # <<>> THEN Append(out, LineSeg(prev[1], p)) ELSE out,
                        <<p>>)

\* A plausible slip: prev survives a gap, so the next defined point is
\* joined to the last one before the gap.
RECURSIVE collectLoopBridging(_, _, _, _, _, _)
collectLoopBridging(s, xOf, yOf, i, out, prev) ==
    IF i >= Len(s)
    THEN out
    ELSE LET v == At(s, i)
         IN IF IsGap(v)
            THEN collectLoopBridging(s, xOf, yOf, i + 1, out, prev)
            ELSE LET p == XY(Scale(xOf, i), Scale(yOf, v.val))
                 IN collectLoopBridging(s, xOf, yOf, i + 1,
                        IF prev # <<>> THEN Append(out, LineSeg(prev[1], p)) ELSE out,
                        <<p>>)

collectSegmentsBridging(s, xOf, yOf) == collectLoopBridging(s, xOf, yOf, 0, <<>>, <<>>)

collectSegmentsFromSeries(s, xOf, yOf) == collectLoop(s, xOf, yOf, 0, <<>>, <<>>)

\* distPointToSeg, squared: the distance from (px, py) to the point of s at
\* parameter t = clamp(dot / lenSq, 0, 1).
distPointToSeg(px, py, s) ==
    LET A == px - s.x1
        B == py - s.y1
        C == s.x2 - s.x1
        D == s.y2 - s.y1
        dot == A * C + B * D
        lenSq == OrOne(C * C + D * D)
    IN IF dot <= 0 THEN Finite(A * A + B * B, 1)
       ELSE IF dot >= lenSq
            THEN Finite((px - s.x2) * (px - s.x2) + (py - s.y2) * (py - s.y2), 1)
       ELSE Finite((A * A + B * B) * lenSq - dot * dot, lenSq)

\* A plausible slip: the projection parameter is not clamped, so the distance
\* is the one to the segment's whole line.
distPointToLine(px, py, s) ==
    LET A == px - s.x1
        B == py - s.y1
        C == s.x2 - s.x1
        D == s.y2 - s.y1
        dot == A * C + B * D
        lenSq == OrOne(C * C + D * D)
    IN Finite((A * A + B * B) * lenSq - dot * dot, lenSq)

\* A plausible slip: only the lower bound applied.
clampLowOnly(v, min, max) == Max(min, v)

\* clamp(v, min, max)
clamp(v, min, max) == Max(min, Min(max, v))

\* All segments of all series, in the order they are pushed.
RECURSIVE historicalSegs(_, _, _, _)
historicalSegs(hist, k, xOf, yOf) ==
    IF k > Len(hist) THEN <<>>
    ELSE collectSegmentsFromSeries(hist[k], xOf, yOf) \o historicalSegs(hist, k + 1, xOf, yOf)

allSegs(act, pred, hist, o) ==
    collectSegmentsFromSeries(act, o.xOfIndex, o.yOfValue)
        \o collectSegmentsFromSeries(pred, o.xOfIndex, o.yOfValue)
        \o historicalSegs(hist, 1, o.xOfIndex, o.yOfValue)

\* The inner loop over segs: if (d < minDist) minDist = d.
RECURSIVE minDistLoop(_, _, _, _, _)
minDistLoop(gx, gy, sgs, k, minDist) ==
    IF k > Len(sgs) THEN minDist
    ELSE LET dk == distPointToSeg(gx, gy, sgs[k])
         IN minDistLoop(gx, gy, sgs, k + 1, IF Lt(dk, minDist) THEN dk ELSE minDist)

\* Centre of grid cell (ci, ri).
gridX(o, ci) == o.plotX1 + ((2 * ci + 1) * (o.plotX2 - o.plotX1)) \div (2 * o.cols)

gridY(o, ri) == o.plotY1 + ((2 * ri + 1) * (o.plotY2 - o.plotY1)) \div (2 * o.rows)

splitXOf(o) == Scale(o.xOfIndex, o.predictStartIndex)

\* minDist * bias; the bias is the fraction forecastBias[1] / forecastBias[2]
\* when gx >= splitX, and 1.0 otherwise.
biased(minDist, o, gx) ==
    IF minDist.inf THEN Infinite
    ELSE IF gx >= splitXOf(o)
         THEN Finite(minDist.n * o.forecastBias[1] * o.forecastBias[1],
                     minDist.d * o.forecastBias[2] * o.forecastBias[2])
    ELSE minDist

\* A plausible slip: no bias.
scoreUnbiased(sgs, o, ci, ri) == minDistLoop(gridX(o, ci), gridY(o, ri), sgs, 1, Infinite)

\* The score of grid cell (ci, ri).
scoreOf(sgs, o, ci, ri) ==
    biased(minDistLoop(gridX(o, ci), gridY(o, ri), sgs, 1, Infinite), o, gridX(o, ci))

\* A plausible slip: rows in the outer loop.
scanOrderRowMajor(cols, rows) ==
    [k \in 1..(cols * rows) |-> [ci |-> (k - 1) % cols, ri |-> (k - 1) \div cols]]

\* The order the two nested loops visit the cells in: ci outer, ri inner.
scanOrder(cols, rows) ==
    [k \in 1..(cols * rows) |-> [ci |-> (k - 1) \div rows, ri |-> (k - 1) % rows]]

NoBest == [some |-> FALSE, ci |-> 0, ri |-> 0, x |-> 0, y |-> 0, score |-> Infinite]

\* A plausible slip: >= for >.
takesOverOrEqual(best, score) == ~best.some \/ ~Gt(best.score, score)

\* !best || score > best.score
takesOver(best, score) == ~best.some \/ Gt(score, best.score)

\* The grid search: best after the cells order[k..] have been visited.
RECURSIVE gridLoop(_, _, _, _, _)
gridLoop(sgs, o, order, k, best) ==
    IF k > Len(order) THEN best
    ELSE LET c == order[k]
             score == scoreOf(sgs, o, c.ci, c.ri)
         IN gridLoop(sgs, o, order, k + 1,
                IF takesOver(best, score)
                THEN [some |-> TRUE, ci |-> c.ci, ri |-> c.ri,
                      x |-> gridX(o, c.ci), y |-> gridY(o, c.ri), score |-> score]
                ELSE best)

gridSearch(act, pred, hist, o) ==
    gridLoop(allSegs(act, pred, hist, o), o, scanOrder(o.cols, o.rows), 1, NoBest)

\* A plausible slip: the arrow side as an if / else-if chain from the top
\* edge down.
arrowSideTopFirst(left, top, o) ==
    LET margin == o.inset + 4
    IN IF top <= o.plotY1 + margin THEN "bottom"
       ELSE IF left <= o.plotX1 + margin THEN "right"
       ELSE IF left >= o.plotX2 - o.noteWidth - margin THEN "left"
       ELSE "top"

\* Three ifs in sequence, each overwriting what the one before it set.
arrowSideOf(left, top, o) ==
    LET margin == o.inset + 4
        a0 == "top"
        a1 == IF top <= o.plotY1 + margin THEN "bottom" ELSE a0
        a2 == IF left <= o.plotX1 + margin THEN "right" ELSE a1
    IN IF left >= o.plotX2 - o.noteWidth - margin THEN "left" ELSE a2

\* placeNoteAuto: the PlacementResult.
placeNoteAuto(act, pred, hist, n, o) ==
    LET best == gridSearch(act, pred, hist, o)
        baseX == IF best.some THEN best.x ELSE (o.plotX1 + o.plotX2) \div 2
        baseY == IF best.some THEN best.y ELSE (o.plotY1 + o.plotY2) \div 2
        left == clamp(baseX + 8, o.plotX1 + o.inset, o.plotX2 - o.inset - o.noteWidth)
        top == clamp(baseY - o.noteHeight - 8, o.plotY1 + o.inset,
                     o.plotY2 - o.inset - o.noteHeight)
    IN [left |-> left, top |-> top, arrowSide |-> arrowSideOf(left, top, o)]

\* ------------------------------------------------------------------- state
VARIABLES
    series,             \* LineSeries props: the series to draw
    segs,               \* LineSeries.tsx: the sub-paths of the last render
    d,                  \* self-animating LineSeries: the path of the last render
    labelsLength,       \* n = data.labels.length
    actual,             \* data.actual
    predicted,          \* data.predicted (the caller's array)
    historical,         \* the historical series handed to placeNoteAuto
    predictStartIndex,  \* data.predictStartIndex
    anchorAtCurrent,    \* the continuity-mode prop
    rendered,           \* the chart has rendered its current props
    lastActualIndex,    \* as computed by the last render
    predictedForDraw,   \* as built by the last render: [ref, items]
    showJoinSegment,    \* the connector prop
    joinLine,           \* the connector <line> of the last render: <<p, q>>, or <<>>
    opts,               \* the NotePlacementOptions of the placeNoteAuto call
    placed,             \* placeNoteAuto has returned
    best,               \* placeNoteAuto: best when the grid search ends
    placement,          \* the PlacementResult returned
    mounted,            \* an animated ForecastChart is mounted
    animate,            \* prop animate
    revealTotalMs,      \* prop durations.revealTotalMs
    width,              \* prop width
    progressX,          \* state progressX, in px
    fullyRevealed,      \* state fullyRevealed
    revealStartTs,      \* ref revealStartTs.current
    effectDeps,         \* the dependency array of the last run of the reveal effect
    rafQueue,           \* the chart's callbacks waiting for the next animation frame
    now,                \* the clock that stamps animation frames
    changedAt,          \* history: the clock at the latest input change made mid-reveal
    showNoteHist,       \* state showNoteHist
    fadeDeps,           \* the dependency array of the last run of the fade effect
    fadeTimer,          \* the fade effect's timeout: the clock at which it is due
    seriesList,         \* extentFromSeries: the series handed over
    extentOut,          \* the result of the last extent / extentFromSeries call
    domainArg,          \* niceDomain: the [min, max] handed over
    ticksCount,         \* niceDomain: the tick hint handed over
    niceOut,            \* the result of the last niceDomain call
    noteProps,          \* the props of the chart's latest render pass
    memoDeps,           \* notePlacement: the dependency array the memo was computed for
    notePlacement,      \* notePlacement: the memoised PlacementResult, or NoNote
    noteSeries,         \* notePlacement: the series its last run handed to placeNoteAuto
    respProps,          \* ResponsiveForecastChart props: aspectRatio, minHeight, maxHeight
    respMounted,        \* a ResponsiveForecastChart is mounted
    subscribed,         \* useElementSize: its effect has run
    observing,          \* the ResizeObserver observes the container
    elWidth,            \* the container's content width, in quarter pixels
    pending,            \* the observer holds an observation it has not delivered
    size,               \* useElementSize state size.width, in quarter pixels
    drawn,              \* the ForecastChart of the last render: [width, height], or <<>>
    lateUpdate,         \* history: setSize was called after the teardown
    tickArgs,           \* xTicks: the labels' months, xTickMonths and xMaxTicks of the render
    xTicks,             \* xTicks: the tick indices computed, or <<>> before the render
    gid,                \* the module-level counter of ForecastChart, shared by its instances
    charts,             \* the state of each chart instance (hooks and props), by slot
    frameQueue,         \* the frame callbacks waiting in the page, each with its owner
    timeouts,           \* the timeouts waiting in the page, each with its owner
    pageNow,            \* the page's clock
    drawMounted,        \* the self-animating LineSeries is mounted
    drawProps,          \* its props d, animateDraw, durationMs, delayMs
    drawDeps,           \* the dependencies of the last draw effect run, or <<>>
    drawRun,            \* the number of draw animations started
    drawCurrent,        \* the run whose cleanup has not run yet, or 0
    drawTimers,         \* the timeouts waiting, each with the run that set it
    drawNow,            \* the clock of the timeouts
    drawEnds,           \* how often onDrawEnd was called, by run
    lateEnds            \* the runs whose onDrawEnd was called after their cleanup

lineVars == <<series, segs, d>>

dataVars == <<labelsLength, actual, predicted, historical, predictStartIndex>>

chartVars == <<anchorAtCurrent, rendered, lastActualIndex, predictedForDraw,
               showJoinSegment, joinLine>>

placeVars == <<opts, placed, best, placement>>

propVars == <<animate, revealTotalMs, width>>

fadeVars == <<showNoteHist, fadeDeps, fadeTimer>>

revealVars == <<mounted, animate, revealTotalMs, width, progressX, fullyRevealed,
                revealStartTs, effectDeps, rafQueue, now, changedAt,
                showNoteHist, fadeDeps, fadeTimer>>

scaleVars == <<seriesList, extentOut, domainArg, ticksCount, niceOut>>

noteVars == <<noteProps, memoDeps, notePlacement, noteSeries>>

respVars == <<respProps, respMounted, subscribed, observing, elWidth, pending, size, drawn, lateUpdate>>

tickVars == <<tickArgs, xTicks>>

instVars == <<gid, charts, frameQueue, timeouts, pageNow>>

drawVars == <<drawMounted, drawProps, drawDeps, drawRun, drawCurrent, drawTimers, drawNow, drawEnds, lateEnds>>

vars == <<series, segs, d, labelsLength, actual, predicted, historical,
          predictStartIndex, anchorAtCurrent, rendered, lastActualIndex,
          predictedForDraw, showJoinSegment, joinLine, opts, placed, best, placement,
          mounted, animate, revealTotalMs, width, progressX, fullyRevealed,
          revealStartTs, effectDeps, rafQueue, now, changedAt,
          showNoteHist, fadeDeps, fadeTimer,
          seriesList, extentOut, domainArg, ticksCount, niceOut,
          noteProps, memoDeps, notePlacement, noteSeries,
          respProps, respMounted, subscribed, observing, elWidth, pending, size, drawn, lateUpdate,
          tickArgs, xTicks,
          gid, charts, frameQueue, timeouts, pageNow,
          drawMounted, drawProps, drawDeps, drawRun, drawCurrent, drawTimers, drawNow, drawEnds, lateEnds>>

\* ------------------------------------------------------------ line render
\* The scales a chart hands to its lines (index -> x, value -> y): 8 px per
\* step from x = 4, 4 px per unit of value up from y = 20.
LineXOf == createLinear(0, 1, 4, 12)

LineYOf == createLinear(0, 1, 20, 16)

\* No line component is mounted.
LineIdle == series = <<>> /\ segs = <<>> /\ d = <<>>

\* No data is loaded.
DataIdle ==
    /\ labelsLength = 0 /\ actual = <<>> /\ predicted = <<>>
    /\ historical = <<>> /\ predictStartIndex = 0

NoOpts ==
    [plotX1 |-> 0, plotY1 |-> 0, plotX2 |-> 0, plotY2 |-> 0, predictStartIndex |-> 0,
     xOfIndex |-> createLinear(0, 0, 0, 0), yOfValue |-> createLinear(0, 0, 0, 0),
     cols |-> 0, rows |-> 0, forecastBias |-> <<1, 1>>,
     noteWidth |-> 0, noteHeight |-> 0, inset |-> 0]

NoPlacement == [left |-> 0, top |-> 0, arrowSide |-> "top"]

\* No chart has rendered.
ChartIdle ==
    /\ anchorAtCurrent = FALSE /\ rendered = FALSE /\ lastActualIndex = -1
    /\ predictedForDraw = [ref |-> "data.predicted", items |-> <<>>]
    /\ showJoinSegment = FALSE /\ joinLine = <<>>

\* placeNoteAuto has not been called.
PlaceIdle == opts = NoOpts /\ placed = FALSE /\ best = NoBest /\ placement = NoPlacement

\* No animated chart is mounted.
RevealIdle ==
    /\ mounted = FALSE /\ animate = FALSE /\ revealTotalMs = 0 /\ width = 0
    /\ progressX = Num(0) /\ fullyRevealed = FALSE /\ revealStartTs = Null
    /\ effectDeps = <<>> /\ rafQueue = {} /\ now = 0 /\ changedAt = Null
    /\ showNoteHist = FALSE /\ fadeDeps = <<>> /\ fadeTimer = Null

\* The scale module has not been called.
ScaleIdle ==
    /\ seriesList = <<>> /\ extentOut = <<>>
    /\ domainArg = <<>> /\ ticksCount = 0 /\ niceOut = <<>>

\* No chart with a note has rendered.
NoteIdle ==
    /\ noteProps = <<>> /\ memoDeps = <<>> /\ notePlacement = <<>> /\ noteSeries = <<>>

\* No responsive chart is mounted.
RespIdle ==
    /\ respProps = <<>> /\ respMounted = FALSE /\ subscribed = FALSE
    /\ observing = FALSE /\ elWidth = 0 /\ pending = FALSE /\ size = 0
    /\ drawn = <<>> /\ lateUpdate = FALSE

\* No x-axis ticks have been computed.
TickIdle == tickArgs = <<>> /\ xTicks = <<>>

\* No chart instance has been mounted on the page.
InstIdle ==
    /\ gid = 0 /\ charts = <<>> /\ frameQueue = {} /\ timeouts = {} /\ pageNow = 0

\* No self-animating LineSeries has been mounted.
DrawIdle ==
    /\ drawMounted = FALSE /\ drawProps = <<>> /\ drawDeps = <<>>
    /\ drawRun = 0 /\ drawCurrent = 0 /\ drawTimers = {} /\ drawNow = 0
    /\ drawEnds = <<>> /\ lateEnds = {}

LineInit ==
    /\ series \in AllSeries
    /\ segs = LineSeriesSegs(series, LineXOf, LineYOf)
    /\ d = buildPathD(series, LineXOf, LineYOf)
    /\ DataIdle /\ ChartIdle /\ PlaceIdle /\ RevealIdle /\ ScaleIdle /\ NoteIdle /\ RespIdle /\ TickIdle /\ InstIdle /\ DrawIdle

\* One entry of s replaced, one entry appended, or the last entry dropped.
Edits(s) ==
    {[s EXCEPT ![k] = v] : k \in 1..Len(s), v \in Values}
        \cup (IF Len(s) < MaxLen THEN {Append(s, v) : v \in Values} ELSE {})
        \cup (IF Len(s) > 0 THEN {SubSeq(s, 1, Len(s) - 1)} ELSE {})

\* New props: both line components render the series they are given.
RenderLines(s) ==
    /\ series' = s
    /\ segs' = LineSeriesSegs(s, LineXOf, LineYOf)
    /\ d' = buildPathD(s, LineXOf, LineYOf)
    /\ UNCHANGED <<dataVars, chartVars, placeVars, revealVars, scaleVars, noteVars, respVars, tickVars, instVars, drawVars>>

LineNext == \E s \in Edits(series) : RenderLines(s)

SpecLine == LineInit /\ [][LineNext]_vars

\* ----------------------------------------------------------- chart render
\* The data a chart is given: actual holds 1 where it is defined, predicted
\* holds 2, so that a copied anchor can be told from a forecast value.
ActualSeries == UNION {[1..n -> {Null, NonFinite, Num(1)}] : n \in 0..MaxLen}

PredictedSeries == UNION {[1..n -> {Null, NonFinite, Num(2)}] : n \in 0..MaxLen}

ChartInit ==
    /\ actual \in ActualSeries
    /\ predicted \in PredictedSeries
    /\ historical = <<>>
    /\ labelsLength \in {Len(actual), Len(predicted)}
    /\ predictStartIndex \in -1..(MaxLen + 1)
    /\ anchorAtCurrent \in BOOLEAN
    /\ showJoinSegment \in BOOLEAN
    /\ rendered = FALSE
    /\ lastActualIndex = -1
    /\ predictedForDraw = [ref |-> "data.predicted", items |-> <<>>]
    /\ joinLine = <<>>
    /\ LineIdle /\ PlaceIdle /\ RevealIdle /\ ScaleIdle /\ NoteIdle /\ RespIdle /\ TickIdle /\ InstIdle /\ DrawIdle

\* firstPredIndex: the scan up from predictStartIndex to n - 1 for a
\* defined, finite entry of predicted; -1 when there is none.
RECURSIVE firstPredScan(_, _, _)
firstPredScan(pred, i, n) ==
    IF i >= n THEN -1
    ELSE IF ~IsGap(At(pred, i)) THEN i
    ELSE firstPredScan(pred, i + 1, n)

firstPredIndexOf(pred, psi, n) == firstPredScan(pred, psi, n)

\* A plausible slip: the connector does not look at the continuity mode.
canJoinIgnoringAnchor(lai, fpi) == showJoinSegment /\ lai >= 0 /\ fpi >= 0

\* canJoin
canJoin(lai, fpi) == showJoinSegment /\ ~anchorAtCurrent /\ lai >= 0 /\ fpi >= 0

\* The connector of a render: the <line> from the last actual point to the
\* first predicted point, drawn when canJoin.
joinLineOf(lai, fpi) ==
    IF canJoin(lai, fpi)
    THEN <<XY(Scale(LineXOf, lai), Scale(LineYOf, At(actual, lai).val)),
           XY(Scale(LineXOf, fpi), Scale(LineYOf, At(predicted, fpi).val))>>
    ELSE <<>>

\* One render pass of ForecastChart over its props.
RenderChart ==
    /\ ~rendered
    /\ LET lai == lastActualIndexOf(actual, predictStartIndex, labelsLength)
            out == buildPredictedWithAnchor(predicted, anchorAtCurrent, lai,
                                            lastActualValueOf(actual, lai))
       IN /\ lastActualIndex' = lai
          /\ predictedForDraw' = [ref |-> out.ref, items |-> out.items]
          /\ predicted' = out.caller
          /\ joinLine' = joinLineOf(lai, firstPredIndexOf(predicted, predictStartIndex, labelsLength))
    /\ rendered' = TRUE
    /\ UNCHANGED <<labelsLength, actual, historical, predictStartIndex, anchorAtCurrent,
                   showJoinSegment>>
    /\ UNCHANGED <<lineVars, placeVars, revealVars, scaleVars, noteVars, respVars, tickVars, instVars, drawVars>>

ChartNext == RenderChart

SpecChart == ChartInit /\ [][ChartNext]_vars

\* ----------------------------------------------------------- note placement
\* Plot rectangles, note sizes and insets, in pixels: [plotW, plotH,
\* noteWidth, noteHeight, inset].  The rectangles are small, and their sides
\* are multiples of every grid and scale step used, so that cell centres and
\* scaled points are whole pixels.  Some notes fit with room to spare, some
\* fit only just, some are wider or taller than the rectangle.
Layouts ==
    {<<36, 36, 4, 4, 1>>, <<36, 36, 2, 2, 14>>, <<24, 12, 8, 2, 0>>,
     <<24, 24, 32, 4, 1>>, <<24, 12, 8, 30, 2>>, <<24, 24, 22, 22, 1>>}

\* Grid resolutions and forecastBias as a fraction, [cols, rows, num, den]:
\* 1.1 is the default bias, 1.12 what the chart passes.
Grids ==
    {<<1, 1, 11, 10>>, <<2, 2, 28, 25>>, <<2, 2, 11, 10>>, <<3, 2, 11, 10>>, <<2, 3, 28, 25>>}

\* The series handed to placeNoteAuto: n entries each.
PlaceValues == {Null, Num(0), Num(MaxVal)}

\* A forecast that is absent up to its last two entries.
TailSeries(n) == [i \in 1..n |-> IF i = n THEN Num(MaxVal) ELSE IF i = n - 1 THEN Num(0) ELSE Null]

\* What goes with actual: [predicted, historical].
PlaceOthers(n) ==
    {<<[i \in 1..n |-> Null], <<>>>>,
     <<TailSeries(n), <<>>>>,
     <<[i \in 1..n |-> Null], <<[i \in 1..n |-> Num(MaxVal)]>>>>}

PlaceInit ==
    /\ labelsLength \in 2..MaxLen
    /\ actual \in [1..labelsLength -> PlaceValues]
    /\ \E other \in PlaceOthers(labelsLength) :
          predicted = other[1] /\ historical = other[2]
    /\ predictStartIndex \in {0, 1, labelsLength}
    /\ \E lay \in Layouts, g \in Grids :
          opts = [plotX1 |-> 4, plotY1 |-> 2, plotX2 |-> 4 + lay[1], plotY2 |-> 2 + lay[2],
                  predictStartIndex |-> predictStartIndex,
                  xOfIndex |-> createLinear(0, labelsLength - 1, 4, 4 + lay[1]),
                  yOfValue |-> createLinear(0, MaxVal, 2 + lay[2], 2),
                  cols |-> g[1], rows |-> g[2], forecastBias |-> <<g[3], g[4]>>,
                  noteWidth |-> lay[3], noteHeight |-> lay[4], inset |-> lay[5]]
    /\ placed = FALSE /\ best = NoBest /\ placement = NoPlacement
    /\ LineIdle /\ ChartIdle /\ RevealIdle /\ ScaleIdle /\ NoteIdle /\ RespIdle /\ TickIdle /\ InstIdle /\ DrawIdle

\* One call placeNoteAuto(actual, predicted, historical, n, opts).
Place ==
    /\ ~placed
    /\ best' = gridSearch(actual, predicted, historical, opts)
    /\ placement' = placeNoteAuto(actual, predicted, historical, labelsLength, opts)
    /\ placed' = TRUE
    /\ UNCHANGED <<opts, lineVars, dataVars, chartVars, revealVars, scaleVars, noteVars, respVars, tickVars, instVars, drawVars>>

PlaceNext == Place

SpecPlace == PlaceInit /\ [][PlaceNext]_vars

\* ---------------------------------------------------------- reveal effect
\* The clock stops at MaxTime.
MaxTime == 5

\* padding.left and padding.right, the defaults.
PaddingLeft == 68

PaddingRight == 16

\* Chart widths (plots 64 and 128 px wide) and reveal durations, in clock
\* units: every eased position is then a whole pixel.  The duration is any
\* number the caller configures, 0 included.
Widths == {148, 212}

Durations == {0, 2, 4}

plotX1 == PaddingLeft

plotX2 == width - PaddingRight

\* The dependency array of the reveal effect, as of the current props.
Deps == <<animate, revealTotalMs, plotX1, plotX2>>

\* The callback `loop` of the effect run with dependencies deps: it closes
\* over totalMs, plotX1 and plotX2.
LoopOf(deps) == [totalMs |-> deps[2], plotX1 |-> deps[3], plotX2 |-> deps[4]]

\* The number NaN, as the fraction 0/0.
NaN == [n |-> 0, d |-> 0]

\* t = Math.min(1, (now - start) / totalMs), as a fraction n/d.  With
\* totalMs = 0 the quotient is 0/0 = NaN on the frame that sets the start
\* (Math.min(1, NaN) is NaN) and Infinity, capped to 1, on a later one.
tOf(ts, start, totalMs) ==
    IF totalMs = 0
    THEN (IF ts = start THEN NaN ELSE [n |-> 1, d |-> 1])
    ELSE [n |-> Min(totalMs, ts - start), d |-> totalMs]

\* ease(t) = 1 - Math.pow(1 - t, 3); NaN stays NaN.
ease(t) ==
    [n |-> t.d * t.d * t.d - (t.d - t.n) * (t.d - t.n) * (t.d - t.n),
     d |-> t.d * t.d * t.d]

\* px = plotX1 + (plotX2 - plotX1) * eased
pxOf(c, eased) ==
    IF eased.d = 0
    THEN NonFinite
    ELSE Num(c.plotX1 + ((c.plotX2 - c.plotX1) * eased.n) \div eased.d)

\* t < 1, which is false of NaN.
BelowOne(t) == t.d # 0 /\ t.n < t.d

\* A plausible slip: the cleanup cancels nothing.
Uncancelled == rafQueue

\* What the cleanup of the last effect run leaves in the queue:
\* cancelAnimationFrame(raf) of the run that scheduled a callback.
Cleaned ==
    IF effectDeps # <<>> /\ effectDeps[1]
    THEN rafQueue \ {LoopOf(effectDeps)}
    ELSE rafQueue

\* A reveal is under way: a frame has run and the reveal is not complete.
Animating == mounted /\ animate /\ ~fullyRevealed /\ ~IsNullish(revealStartTs)

\* The datasets a chart is given: [labelsLength, actual, predicted, predictStartIndex].
RevealDatasets ==
    {<<3, <<Num(0), Num(1), Null>>, <<Null, Null, Num(1)>>, 2>>,
     <<3, <<Num(1), Num(0), Null>>, <<Null, Null, Num(0)>>, 2>>}

\* durations.afterRevealDelayMs, in clock units.
AfterRevealDelayMs == 1

\* The dependency array of the fade effect, as of the current render.
FadeDeps == <<animate, fullyRevealed, AfterRevealDelayMs>>

Dataset == <<labelsLength, actual, predicted, predictStartIndex>>

\* x = createLinear([0, n - 1], [plotX1, plotX2])
xOfIndex == createLinear(0, labelsLength - 1, plotX1, plotX2)

\* splitX: the x of the last actual point, or of predictStartIndex.
splitX ==
    LET lai == lastActualIndexOf(actual, predictStartIndex, labelsLength)
    IN IF lai >= 0 THEN Scale(xOfIndex, lai) ELSE Scale(xOfIndex, predictStartIndex)

\* The widths of the two clip rectangles of a render (NaN stays NaN).
actualClipWidth ==
    IF progressX.tag # "num" THEN NonFinite
    ELSE Num(Max(0, Min(progressX.val, plotX2) - plotX1))

predClipWidth ==
    IF progressX.tag # "num" THEN NonFinite
    ELSE Num(Max(0, Min(progressX.val - splitX, plotX2 - splitX)))

\* The first render of the animated chart; no effect has run yet.
RevealInit ==
    /\ mounted = TRUE
    /\ animate \in BOOLEAN
    /\ revealTotalMs \in Durations
    /\ width \in Widths
    /\ progressX = Num(plotX1)
    /\ fullyRevealed = ~animate
    /\ revealStartTs = Null
    /\ effectDeps = <<>>
    /\ rafQueue = {}
    /\ now = 0
    /\ changedAt = Null
    /\ showNoteHist = ~animate
    /\ fadeDeps = <<>>
    /\ fadeTimer = Null
    /\ \E ds \in RevealDatasets :
          /\ labelsLength = ds[1] /\ actual = ds[2]
          /\ predicted = ds[3] /\ predictStartIndex = ds[4]
    /\ historical = <<>>
    /\ LineIdle /\ ChartIdle /\ PlaceIdle /\ ScaleIdle /\ NoteIdle /\ RespIdle /\ TickIdle /\ InstIdle /\ DrawIdle

\* The passive effects of a render run, each if one of its dependencies
\* changed since its last run (always after the first render), the cleanup
\* of its earlier run first.  The reveal effect: progress pinned at plotX2
\* without animation, a callback scheduled with it.  The fade effect: a
\* timeout set when animating and fully revealed, as of that render.
RunEffect ==
    /\ mounted /\ (effectDeps # Deps \/ fadeDeps # FadeDeps)
    /\ IF effectDeps # Deps
       THEN /\ IF ~animate
               THEN /\ progressX' = Num(plotX2)
                    /\ fullyRevealed' = TRUE
                    /\ rafQueue' = Cleaned
               ELSE /\ rafQueue' = Cleaned \cup {LoopOf(Deps)}
                    /\ UNCHANGED <<progressX, fullyRevealed>>
            /\ effectDeps' = Deps
       ELSE UNCHANGED <<progressX, fullyRevealed, rafQueue, effectDeps>>
    /\ IF fadeDeps # FadeDeps
       THEN /\ fadeTimer' = IF animate /\ fullyRevealed
                            THEN Num(now + AfterRevealDelayMs)
                            ELSE Null
            /\ fadeDeps' = FadeDeps
       ELSE UNCHANGED <<fadeTimer, fadeDeps>>
    /\ UNCHANGED <<mounted, propVars, revealStartTs, now, changedAt, showNoteHist>>
    /\ UNCHANGED <<lineVars, dataVars, chartVars, placeVars, scaleVars, noteVars, respVars, tickVars, instVars, drawVars>>

\* The timeout of the fade effect fires.
FadeTimeout ==
    /\ ~IsNullish(fadeTimer) /\ now >= fadeTimer.val
    /\ showNoteHist' = TRUE
    /\ fadeTimer' = Null
    /\ UNCHANGED <<mounted, propVars, progressX, fullyRevealed, revealStartTs,
                   effectDeps, rafQueue, now, changedAt, fadeDeps>>
    /\ UNCHANGED <<lineVars, dataVars, chartVars, placeVars, scaleVars, noteVars, respVars, tickVars, instVars, drawVars>>

\* An animation frame stamped `now` runs the waiting callback c.
Frame(c) ==
    /\ c \in rafQueue
    /\ LET start == IF IsNullish(revealStartTs) THEN now ELSE revealStartTs.val
           t == tOf(now, start, c.totalMs)
       IN /\ revealStartTs' = Num(start)
          /\ progressX' = pxOf(c, ease(t))
          /\ IF BelowOne(t)
             THEN /\ rafQueue' = (rafQueue \ {c}) \cup {c}
                  /\ UNCHANGED fullyRevealed
             ELSE /\ rafQueue' = rafQueue \ {c}
                  /\ fullyRevealed' = TRUE
    /\ UNCHANGED <<mounted, propVars, effectDeps, now, changedAt>>
    /\ UNCHANGED <<fadeVars, lineVars, dataVars, chartVars, placeVars, scaleVars, noteVars, respVars, tickVars, instVars, drawVars>>

Tick ==
    /\ now < MaxTime
    /\ now' = now + 1
    /\ UNCHANGED <<mounted, propVars, progressX, fullyRevealed, revealStartTs,
                   effectDeps, rafQueue, changedAt>>
    /\ UNCHANGED <<fadeVars, lineVars, dataVars, chartVars, placeVars, scaleVars, noteVars, respVars, tickVars, instVars, drawVars>>

\* A render with new props starts once the effects of the last one have run.
CanRender == mounted /\ effectDeps = Deps /\ fadeDeps = FadeDeps

Noted == IF Animating THEN Num(now) ELSE changedAt

Resize(w) ==
    /\ CanRender /\ w # width
    /\ width' = w
    /\ changedAt' = Noted
    /\ UNCHANGED <<mounted, animate, revealTotalMs, progressX, fullyRevealed,
                   revealStartTs, effectDeps, rafQueue, now>>
    /\ UNCHANGED <<fadeVars, lineVars, dataVars, chartVars, placeVars, scaleVars, noteVars, respVars, tickVars, instVars, drawVars>>

ToggleAnimate ==
    /\ CanRender
    /\ animate' = ~animate
    /\ changedAt' = Noted
    /\ UNCHANGED <<mounted, revealTotalMs, width, progressX, fullyRevealed,
                   revealStartTs, effectDeps, rafQueue, now>>
    /\ UNCHANGED <<fadeVars, lineVars, dataVars, chartVars, placeVars, scaleVars, noteVars, respVars, tickVars, instVars, drawVars>>

SetDuration(ms) ==
    /\ CanRender /\ ms # revealTotalMs
    /\ revealTotalMs' = ms
    /\ UNCHANGED <<mounted, animate, width, progressX, fullyRevealed,
                   revealStartTs, effectDeps, rafQueue, now, changedAt>>
    /\ UNCHANGED <<fadeVars, lineVars, dataVars, chartVars, placeVars, scaleVars, noteVars, respVars, tickVars, instVars, drawVars>>

ChangeData(ds) ==
    /\ CanRender /\ ds # Dataset
    /\ labelsLength' = ds[1] /\ actual' = ds[2]
    /\ predicted' = ds[3] /\ predictStartIndex' = ds[4]
    /\ changedAt' = Noted
    /\ UNCHANGED <<historical, mounted, propVars, progressX, fullyRevealed,
                   revealStartTs, effectDeps, rafQueue, now>>
    /\ UNCHANGED <<fadeVars, lineVars, chartVars, placeVars, scaleVars, noteVars, respVars, tickVars, instVars, drawVars>>

\* The chart is torn down: the cleanups of the last effect runs.
Unmount ==
    /\ mounted
    /\ mounted' = FALSE
    /\ rafQueue' = Cleaned
    /\ fadeTimer' = Null
    /\ UNCHANGED <<propVars, progressX, fullyRevealed, revealStartTs,
                   effectDeps, now, changedAt, showNoteHist, fadeDeps>>
    /\ UNCHANGED <<lineVars, dataVars, chartVars, placeVars, scaleVars, noteVars, respVars, tickVars, instVars, drawVars>>

FrameStep == \E c \in rafQueue : Frame(c)

RevealNext ==
    \/ RunEffect
    \/ FrameStep
    \/ FadeTimeout
    \/ Tick
    \/ \E w \in Widths : Resize(w)
    \/ ToggleAnimate
    \/ \E ms \in Durations : SetDuration(ms)
    \/ \E ds \in RevealDatasets : ChangeData(ds)
    \/ Unmount

SpecReveal == RevealInit /\ [][RevealNext]_vars

\* The chart with its inputs held as mounted.
SteadyNext ==
    \/ RunEffect
    \/ FrameStep
    \/ FadeTimeout
    \/ Tick
    \/ Unmount

SpecSteady == RevealInit /\ [][SteadyNext]_vars

\* ------------------------------------------------------------ scale module
\* extent and extentFromSeries only compare their entries. minimum and
\* maximum start at +Infinity and -Infinity.
PosInfinity == [tag |-> "+inf", val |-> 0]

NegInfinity == [tag |-> "-inf", val |-> 0]

\* if (v < min) min = v
LowerOf(min, v) == IF min.tag = "+inf" \/ v.val < min.val THEN v ELSE min

\* if (v > max) max = v
HigherOf(max, v) == IF max.tag = "-inf" \/ v.val > max.val THEN v ELSE max

\* if (min === +Infinity || max === -Infinity) return [0, 1]; return [min, max]
extentResult(mm) ==
    IF mm[1].tag = "+inf" \/ mm[2].tag = "-inf" THEN <<0, 1>>
    ELSE <<mm[1].val, mm[2].val>>

\* The loop over one array from entry i on: a nullish or non-finite entry is
\* skipped, any other lowers min and raises max.
RECURSIVE extentLoop(_, _, _)
extentLoop(values, i, mm) ==
    IF i >= Len(values) THEN mm
    ELSE LET v == At(values, i)
         IN IF IsGap(v) THEN extentLoop(values, i + 1, mm)
            ELSE extentLoop(values, i + 1, <<LowerOf(mm[1], v), HigherOf(mm[2], v)>>)

extent(values) == extentResult(extentLoop(values, 0, <<PosInfinity, NegInfinity>>))

\* The outer loop of extentFromSeries: min and max carry over from one
\* series to the next.
RECURSIVE seriesLoop(_, _, _)
seriesLoop(list, k, mm) ==
    IF k > Len(list) THEN mm
    ELSE seriesLoop(list, k + 1, extentLoop(list[k], 0, mm))

\* min and max start again at every series.
extentFromSeriesLastOnly(list) ==
    IF list = <<>> THEN <<0, 1>> ELSE extent(list[Len(list)])

extentFromSeries(list) ==
    extentResult(seriesLoop(list, 1, <<PosInfinity, NegInfinity>>))

\* A number of niceDomain is an IEEE-754 double: every arithmetic result is
\* the representable value nearest to the exact one, ties to the even
\* significand. The model keeps that rounding and bounds the significand at
\* MantissaBits bits (a double has 53); the exponent is unbounded. A number
\* is [m, e], standing for m * 2^e, with m odd or the number zero.
MantissaBits == 8

RECURSIVE Pow(_, _)
Pow(b, n) == IF n <= 0 THEN 1 ELSE b * Pow(b, n - 1)

Abs(x) == IF x < 0 THEN -x ELSE x

Sgn(x) == IF x < 0 THEN -1 ELSE 1

RECURSIVE Flt(_, _)
Flt(m, e) ==
    IF m = 0 THEN [m |-> 0, e |-> 0]
    ELSE IF m % 2 = 0 THEN Flt(m \div 2, e + 1)
    ELSE [m |-> m, e |-> e]

\* a / dd * 2^e for a > 0 and dd > 0, rounded: a and dd are scaled until
\* the quotient has MantissaBits bits, the remainder decides the last bit.
RECURSIVE roundLoop(_, _, _)
roundLoop(a, dd, e) ==
    IF a >= dd * Pow(2, MantissaBits) THEN roundLoop(a, 2 * dd, e + 1)
    ELSE IF a < dd * Pow(2, MantissaBits - 1) THEN roundLoop(2 * a, dd, e - 1)
    ELSE LET q == a \div dd
             r == a % dd
             up == 2 * r > dd \/ (2 * r = dd /\ q % 2 = 1)
         IN Flt(IF up THEN q + 1 ELSE q, e)

\* The double nearest to n / dd * 2^e, dd > 0.
fl(n, dd, e) ==
    IF n = 0 THEN Flt(0, 0)
    ELSE LET r == roundLoop(Abs(n), dd, e) IN Flt(Sgn(n) * r.m, r.e)

\* An integer literal, and a decimal literal with two places, as a double.
FromInt(k) == fl(k, 1, 0)

Decimal(c) == fl(c, 100, 0)

\* a * b, a / b (b is not zero), a - b, a + b
fmul(a, b) == fl(a.m * b.m, 1, a.e + b.e)

fdiv(a, b) == fl(a.m * Sgn(b.m), Abs(b.m), a.e - b.e)

\* The significand of a at the exponent e <= a.e.
AtExp(a, e) == a.m * Pow(2, a.e - e)

fsub(a, b) == LET e == Min(a.e, b.e) IN fl(AtExp(a, e) - AtExp(b, e), 1, e)

fadd(a, b) == LET e == Min(a.e, b.e) IN fl(AtExp(a, e) + AtExp(b, e), 1, e)

\* a < b, a <= b
fLt(a, b) == LET e == Min(a.e, b.e) IN AtExp(a, e) < AtExp(b, e)

fLe(a, b) == ~fLt(b, a)

\* Math.floor and Math.ceil: the integer is representable, nothing rounds.
floor(a) == IF a.e >= 0 THEN a ELSE FromInt(a.m \div Pow(2, -a.e))

ceil(a) == IF a.e >= 0 THEN a ELSE FromInt(-((-a.m) \div Pow(2, -a.e)))

\* Math.floor(Math.log10(n / dd)) for n, dd > 0.
RECURSIVE log10Loop(_, _)
log10Loop(n, dd) ==
    IF n < dd THEN log10Loop(10 * n, dd) - 1
    ELSE IF n >= 10 * dd THEN log10Loop(n, 10 * dd) + 1
    ELSE 0

floorLog10(a) ==
    IF a.e >= 0 THEN log10Loop(Abs(a.m) * Pow(2, a.e), 1)
    ELSE log10Loop(Abs(a.m), Pow(2, -a.e))

\* Math.pow(10, n)
pow10Of(n) == IF n >= 0 THEN fl(Pow(10, n), 1, 0) ELSE fl(1, Pow(10, -n), 0)

\* The multiplier from the leading digits of the raw step.
niceOf(err) ==
    IF fLe(fl(15, 2, 0), err) THEN 10
    ELSE IF fLe(fl(7, 2, 0), err) THEN 5
    ELSE IF fLe(fl(3, 2, 0), err) THEN 2
    ELSE 1

niceStep(rawStep) ==
    LET pow10 == pow10Of(floorLog10(rawStep))
        err == fdiv(rawStep, pow10)
    IN fmul(FromInt(niceOf(err)), pow10)

\* niceDomain([min, max], ticksCount): lo, hi, and the step they were cut to
\* (zero when min === max and no step is computed).
niceDomain(min, max, k) ==
    IF min = max
    THEN [lo |-> fsub(min, FromInt(1)), hi |-> fadd(max, FromInt(1)), step |-> Flt(0, 0)]
    ELSE LET span == fsub(max, min)
             step == niceStep(fdiv(span, FromInt(Max(1, k))))
             niceMin == fmul(floor(fdiv(min, step)), step)
             niceMax == fmul(ceil(fdiv(max, step)), step)
         IN [lo |-> niceMin, hi |-> niceMax, step |-> step]

\* ------------------------------------------------------------- SpecExtent
\* The entries a price series can hold.
ScaleValues == {Null, Undefined, NonFinite, Num(0), Num(1), Num(2)}

MaxSeries == 2

ScaleSeries == UNION {[1..n -> ScaleValues] : n \in 0..2}

ExtentInit ==
    /\ seriesList \in UNION {[1..n -> ScaleSeries] : n \in 0..MaxSeries}
    /\ extentOut = <<>>
    /\ domainArg = <<>> /\ ticksCount = 0 /\ niceOut = <<>>
    /\ LineIdle /\ DataIdle /\ ChartIdle /\ PlaceIdle /\ RevealIdle /\ NoteIdle /\ RespIdle /\ TickIdle /\ InstIdle /\ DrawIdle

\* extent(seriesList[k])
Extent(k) ==
    /\ extentOut' = [fn |-> "extent", arg |-> k, range |-> extent(seriesList[k])]
    /\ UNCHANGED <<seriesList, domainArg, ticksCount, niceOut>>
    /\ UNCHANGED <<lineVars, dataVars, chartVars, placeVars, revealVars, noteVars, respVars, tickVars, instVars, drawVars>>

\* extentFromSeries(seriesList)
ExtentFromSeries ==
    /\ extentOut' = [fn |-> "extentFromSeries", arg |-> 0,
                     range |-> extentFromSeries(seriesList)]
    /\ UNCHANGED <<seriesList, domainArg, ticksCount, niceOut>>
    /\ UNCHANGED <<lineVars, dataVars, chartVars, placeVars, revealVars, noteVars, respVars, tickVars, instVars, drawVars>>

ExtentNext ==
    \/ \E k \in 1..Len(seriesList) : Extent(k)
    \/ ExtentFromSeries

SpecExtent == ExtentInit /\ [][ExtentNext]_vars

\* --------------------------------------------------------------- SpecNice
\* Prices in hundredths, and the tick hints.
Cents == {-35, 0, 11, 13, 19, 21, 35, 40, 100, 16500}

TickHints == {0, 1, 4, 5}

NiceInit ==
    /\ \E a \in Cents, b \in Cents : domainArg = <<Decimal(a), Decimal(b)>>
    /\ ticksCount \in TickHints
    /\ niceOut = <<>>
    /\ seriesList = <<>> /\ extentOut = <<>>
    /\ LineIdle /\ DataIdle /\ ChartIdle /\ PlaceIdle /\ RevealIdle /\ NoteIdle /\ RespIdle /\ TickIdle /\ InstIdle /\ DrawIdle

\* niceDomain(domainArg, ticksCount)
NiceDomain ==
    /\ niceOut = <<>>
    /\ niceOut' = niceDomain(domainArg[1], domainArg[2], ticksCount)
    /\ UNCHANGED <<seriesList, extentOut, domainArg, ticksCount>>
    /\ UNCHANGED <<lineVars, dataVars, chartVars, placeVars, revealVars, noteVars, respVars, tickVars, instVars, drawVars>>

NiceNext == NiceDomain

SpecNice == NiceInit /\ [][NiceNext]_vars

\* --------------------------------------------------------- notePlacement memo
\* clipHistoricalToNow(values, asOfIndex, predictStartIndex)
clipHistoricalToNow(values, asOfIndex, psi) ==
    [j \in 1..Len(values) |->
        IF j - 1 >= asOfIndex /\ j - 1 < psi THEN values[j] ELSE Null]

\* historicalToDraw
historicalToDrawOf(data, clipToNow) ==
    [k \in 1..Len(data.historicalPredictions) |->
        LET h == data.historicalPredictions[k]
        IN IF clipToNow
           THEN clipHistoricalToNow(h.values, h.asOfIndex, data.predictStartIndex)
           ELSE h.values]

\* predictedForDraw of a render pass over data.
predictedForDrawOf(data, anchor) ==
    LET lai == lastActualIndexOf(data.actual, data.predictStartIndex, Len(data.labels))
    IN buildPredictedWithAnchor(data.predicted, anchor, lai,
                                lastActualValueOf(data.actual, lai)).items

\* The plot rectangle of a render pass.
plotRectOf(p) ==
    [x1 |-> p.padding.left, y1 |-> p.padding.top,
     x2 |-> p.width - p.padding.right, y2 |-> p.height - p.padding.bottom]

\* The options the chart hands to placeNoteAuto, in the small geometry of
\* Layouts: a 2 x 2 grid, bias 1.12, a note of 4 x 4 px, inset 1.
noteOptsOf(p) ==
    LET r == plotRectOf(p)
    IN [plotX1 |-> r.x1, plotY1 |-> r.y1, plotX2 |-> r.x2, plotY2 |-> r.y2,
        predictStartIndex |-> p.data.predictStartIndex,
        xOfIndex |-> createLinear(0, Len(p.data.labels) - 1, r.x1, r.x2),
        yOfValue |-> createLinear(0, MaxVal, r.y2, r.y1),
        cols |-> 2, rows |-> 2, forecastBias |-> <<28, 25>>,
        noteWidth |-> 4, noteHeight |-> 4, inset |-> 1]

\* The memo's callback returns null: no note is drawn.
NoNote == [left |-> 0, top |-> 0, arrowSide |-> "null"]

\* The series the memo's callback hands to placeNoteAuto: actual,
\* predicted, historical.
placedSeriesOf(p) ==
    IF ~p.showNote \/ ~p.data.comment THEN <<>>
    ELSE <<p.data.actual, predictedForDrawOf(p.data, p.anchorAtCurrent),
           historicalToDrawOf(p.data, p.historicalClipToNow)>>

\* The series a render pass draws with LineSeries: the historical ones, the
\* actual one, the predicted one.
drawnSeriesOf(p) ==
    [historical |-> historicalToDrawOf(p.data, p.historicalClipToNow),
     actual |-> p.data.actual,
     predicted |-> predictedForDrawOf(p.data, p.anchorAtCurrent)]

\* The callback of the notePlacement (note) memo, run over the props p.
notePlacementOf(p) ==
    IF ~p.showNote \/ ~p.data.comment THEN NoNote
    ELSE LET ss == placedSeriesOf(p)
         IN placeNoteAuto(ss[1], ss[2], ss[3], Len(p.data.labels), noteOptsOf(p))

\* The memo's dependency array: [JSON.stringify(data), width, height,
\* showNote, historicalClipToNow, anchorAtCurrent].
noteDepsOf(p) ==
    <<p.data, p.width, p.height, p.showNote, p.historicalClipToNow, p.anchorAtCurrent>>

\* Datasets of three steps; comment stands for data.comment being non-empty.
NoteDatasets ==
    {[labels |-> <<"a", "b", "c">>, actual |-> <<Num(0), Num(MaxVal), Null>>,
      predicted |-> <<Null, Null, Num(MaxVal)>>,
      historicalPredictions |->
          <<[asOfIndex |-> 1, values |-> <<Num(MaxVal), Num(MaxVal), Num(MaxVal)>>]>>,
      predictStartIndex |-> 2, comment |-> TRUE],
     [labels |-> <<"a", "b", "c">>, actual |-> <<Num(MaxVal), Num(0), Null>>,
      predicted |-> <<Null, Null, Num(0)>>,
      historicalPredictions |-> <<>>,
      predictStartIndex |-> 2, comment |-> TRUE],
     [labels |-> <<"a", "b", "c">>, actual |-> <<Num(0), Num(MaxVal), Null>>,
      predicted |-> <<Null, Null, Num(MaxVal)>>,
      historicalPredictions |-> <<>>,
      predictStartIndex |-> 2, comment |-> FALSE]}

\* Paddings and sizes that leave plot sides of 12, 24 or 36 px.
NotePaddings ==
    {[top |-> 2, right |-> 4, bottom |-> 2, left |-> 4],
     [top |-> 2, right |-> 4, bottom |-> 14, left |-> 16]}

NoteWidths == {32, 44}

NoteHeights == {28, 40}

NoteProps ==
    [data : NoteDatasets, width : NoteWidths, height : NoteHeights,
     padding : NotePaddings, showNote : BOOLEAN,
     historicalClipToNow : BOOLEAN, anchorAtCurrent : BOOLEAN]

\* The first render pass: the memo runs its callback.
NoteInit ==
    /\ noteProps \in NoteProps
    /\ memoDeps = noteDepsOf(noteProps)
    /\ notePlacement = notePlacementOf(noteProps)
    /\ noteSeries = placedSeriesOf(noteProps)
    /\ LineIdle /\ DataIdle /\ ChartIdle /\ PlaceIdle /\ RevealIdle /\ ScaleIdle /\ RespIdle /\ TickIdle /\ InstIdle /\ DrawIdle

\* A render pass with the props p: the memo runs its callback again only
\* when an entry of its dependency array has changed.
Rerender(p) ==
    /\ noteProps' = p
    /\ memoDeps' = noteDepsOf(p)
    /\ notePlacement' = IF noteDepsOf(p) # memoDeps THEN notePlacementOf(p)
                        ELSE notePlacement
    /\ noteSeries' = IF noteDepsOf(p) # memoDeps THEN placedSeriesOf(p) ELSE noteSeries
    /\ UNCHANGED <<lineVars, dataVars, chartVars, placeVars, revealVars, scaleVars, respVars, tickVars, instVars, drawVars>>

SetData(ds) == ds # noteProps.data /\ Rerender([noteProps EXCEPT !.data = ds])

SetWidth(w) == w # noteProps.width /\ Rerender([noteProps EXCEPT !.width = w])

SetHeight(h) == h # noteProps.height /\ Rerender([noteProps EXCEPT !.height = h])

SetPadding(pd) == pd # noteProps.padding /\ Rerender([noteProps EXCEPT !.padding = pd])

ToggleShowNote == Rerender([noteProps EXCEPT !.showNote = ~@])

ToggleClipToNow == Rerender([noteProps EXCEPT !.historicalClipToNow = ~@])

ToggleAnchor == Rerender([noteProps EXCEPT !.anchorAtCurrent = ~@])

NoteNext ==
    \/ \E ds \in NoteDatasets : SetData(ds)
    \/ \E w \in NoteWidths : SetWidth(w)
    \/ \E h \in NoteHeights : SetHeight(h)
    \/ \E pd \in NotePaddings : SetPadding(pd)
    \/ ToggleShowNote
    \/ ToggleClipToNow
    \/ ToggleAnchor

SpecNote == NoteInit /\ [][NoteNext]_vars

\* ------------------------------------------------- ResponsiveForecastChart
PaddingTop == 20

PaddingBottom == 52

\* Math.floor of a length held in quarter pixels.
floorPx(q) == q \div 4

\* A plausible slip: the width rounded to the nearest pixel.
chartWidthRounded(q) == Max(0, (q + 2) \div 4)

\* width = Math.max(0, Math.floor(size.width))
chartWidthOf(q) == Max(0, floorPx(q))

\* idealH = Math.floor(width / aspectRatio), aspectRatio the fraction
\* ar[1] / ar[2]; height = Math.max(minHeight, Math.min(maxHeight, idealH)).
chartHeightOf(w, p) ==
    Max(p.minHeight, Min(p.maxHeight, (w * p.aspectRatio[2]) \div p.aspectRatio[1]))

\* The render pass: the chart is drawn when width > 0.
renderResponsive(q, p) ==
    LET w == chartWidthOf(q)
    IN IF w > 0 THEN [width |-> w, height |-> chartHeightOf(w, p)] ELSE <<>>

\* A plausible slip: the teardown leaves the observer connected.
StillConnected == [observing |-> observing, pending |-> pending]

\* obs.disconnect(): nothing is observed, nothing is left to deliver.
Disconnected == [observing |-> FALSE, pending |-> FALSE]

\* Container widths in quarter pixels: 0, 0.75, 50, 600.25 and 1000 px.
ContainerWidths == {0, 3, 200, 2401, 4000}

\* The defaults, a 2 : 1 box, and a minimum above the maximum.
RespProps ==
    {[aspectRatio |-> <<16, 9>>, minHeight |-> 280, maxHeight |-> 520],
     [aspectRatio |-> <<2, 1>>, minHeight |-> 40, maxHeight |-> 400],
     [aspectRatio |-> <<16, 9>>, minHeight |-> 520, maxHeight |-> 280]}

\* The first render pass has run: size is { width: 0, height: 0 }.
RespInit ==
    /\ respProps \in RespProps
    /\ elWidth \in ContainerWidths
    /\ respMounted = TRUE /\ subscribed = FALSE /\ observing = FALSE
    /\ pending = FALSE /\ size = 0
    /\ drawn = renderResponsive(0, respProps)
    /\ lateUpdate = FALSE
    /\ LineIdle /\ DataIdle /\ ChartIdle /\ PlaceIdle /\ RevealIdle /\ ScaleIdle /\ NoteIdle /\ TickIdle /\ InstIdle /\ DrawIdle

\* The effect of useElementSize: obs.observe(el).  The observer reports the
\* size it finds.
Subscribe ==
    /\ respMounted /\ ~subscribed
    /\ subscribed' = TRUE /\ observing' = TRUE /\ pending' = TRUE
    /\ UNCHANGED <<respProps, respMounted, elWidth, size, drawn, lateUpdate>>
    /\ UNCHANGED <<lineVars, dataVars, chartVars, placeVars, revealVars, scaleVars, noteVars, tickVars, instVars, drawVars>>

\* The layout gives the container another width.
ContainerResize(q) ==
    /\ q # elWidth
    /\ elWidth' = q
    /\ pending' = observing
    /\ UNCHANGED <<respProps, respMounted, subscribed, observing, size, drawn, lateUpdate>>
    /\ UNCHANGED <<lineVars, dataVars, chartVars, placeVars, revealVars, scaleVars, noteVars, tickVars, instVars, drawVars>>

\* The observer's callback: setSize(contentRect), and the render pass that
\* follows while the component is mounted.
Deliver ==
    /\ pending
    /\ pending' = FALSE
    /\ size' = elWidth
    /\ drawn' = IF respMounted THEN renderResponsive(elWidth, respProps) ELSE drawn
    /\ lateUpdate' = (lateUpdate \/ ~respMounted)
    /\ UNCHANGED <<respProps, respMounted, subscribed, observing, elWidth>>
    /\ UNCHANGED <<lineVars, dataVars, chartVars, placeVars, revealVars, scaleVars, noteVars, tickVars, instVars, drawVars>>

\* The teardown: the effect's cleanup runs if the effect has.
RespUnmount ==
    /\ respMounted
    /\ respMounted' = FALSE
    /\ drawn' = <<>>
    /\ IF subscribed
       THEN observing' = Disconnected.observing /\ pending' = Disconnected.pending
       ELSE UNCHANGED <<observing, pending>>
    /\ UNCHANGED <<respProps, subscribed, elWidth, size, lateUpdate>>
    /\ UNCHANGED <<lineVars, dataVars, chartVars, placeVars, revealVars, scaleVars, noteVars, tickVars, instVars, drawVars>>

RespNext ==
    \/ Subscribe
    \/ \E q \in ContainerWidths : ContainerResize(q)
    \/ Deliver
    \/ RespUnmount

SpecResponsive == RespInit /\ [][RespNext]_vars

\* ------------------------------------------------------------------ xTicks
\* xTickMonths: null, or an array of month numbers.
NoMonths == [tag |-> "null", items |-> <<>>]

MonthsOf(s) == [tag |-> "array", items |-> s]

\* The integer a double holds.
ToInt(a) == a.m * Pow(2, a.e)

\* The indices i < n, in order, whose label month is wanted.
RECURSIVE monthLoop(_, _, _)
monthLoop(months, wanted, i) ==
    IF i >= Len(months) THEN <<>>
    ELSE (IF months[i + 1] \in wanted THEN <<i>> ELSE <<>>)
             \o monthLoop(months, wanted, i + 1)

\* set.add(v) on a Set kept in insertion order.
SetAdd(s, v) == IF \E k \in 1..Len(s) : s[k] = v THEN s ELSE Append(s, v)

\* for (let i = 0; i < max; i++) set.add(Math.floor(step * i))
RECURSIVE evenLoop(_, _, _, _)
evenLoop(step, max, i, set) ==
    IF i >= max THEN set
    ELSE evenLoop(step, max, i + 1, SetAdd(set, ToInt(floor(fmul(step, FromInt(i))))))

\* The branch without a month filter: every index when n <= max, else max
\* multiples of step = (n - 1) / (max - 1), floored, and the final index.
evenTicks(n, xMaxTicks) ==
    LET max == Max(2, xMaxTicks)
    IN IF n <= max THEN [k \in 1..n |-> k - 1]
       ELSE SetAdd(evenLoop(fdiv(FromInt(n - 1), FromInt(max - 1)), max, 0, <<>>), n - 1)

\* The branch with a month filter; months[i + 1] is the month parsed from
\* labels[i].
monthTicks(months, xTickMonths) ==
    LET n == Len(months)
        wanted == {Max(1, Min(12, xTickMonths.items[k])) : k \in 1..Len(xTickMonths.items)}
        arr == monthLoop(months, wanted, 0)
    IN IF Len(arr) = 0 /\ n > 0 THEN <<n - 1>> ELSE arr

\* xTicks
xTicksOf(a) ==
    IF a.xTickMonths.tag # "null" /\ Len(a.xTickMonths.items) > 0
    THEN monthTicks(a.months, a.xTickMonths)
    ELSE evenTicks(Len(a.months), a.xMaxTicks)

\* Monthly labels: n months from the month first on.
MonthlyLabels(n, first) == [i \in 1..n |-> ((first + i - 2) % 12) + 1]

LabelCounts == {0, 1, 2, 3, 9, 20, 32, 62, 63}

MonthFilters ==
    {NoMonths, MonthsOf(<<>>), MonthsOf(<<6, 12>>), MonthsOf(<<2>>), MonthsOf(<<6, 6, 11>>)}

MaxTickCounts == {2, 3, 8}

TicksInit ==
    /\ \E n \in LabelCounts, first \in {1, 7}, f \in MonthFilters, k \in MaxTickCounts :
          tickArgs = [months |-> MonthlyLabels(n, first), xTickMonths |-> f, xMaxTicks |-> k]
    /\ xTicks = <<>>
    /\ LineIdle /\ DataIdle /\ ChartIdle /\ PlaceIdle /\ RevealIdle /\ ScaleIdle /\ NoteIdle /\ RespIdle /\ InstIdle /\ DrawIdle

\* The render pass that computes xTicks.
ComputeTicks ==
    /\ xTicks = <<>>
    /\ xTicks' = [ticks |-> xTicksOf(tickArgs)]
    /\ UNCHANGED tickArgs
    /\ UNCHANGED <<lineVars, dataVars, chartVars, placeVars, revealVars, scaleVars, noteVars, respVars, instVars, drawVars>>

TicksNext == ComputeTicks

SpecTicks == TicksInit /\ [][TicksNext]_vars


\* ------------------------------------------------- several chart instances
\* The value of the counter stops at MaxGid.
MaxGid == 6

\* The places of the page where a chart can be mounted, in document order.
Instances == {1, 2}

\* The reveal duration the charts of the page are given, in clock units.
InstDurations == {2}

\* String(n) of a counter value: its decimal digits.
RECURSIVE Digits(_)
Digits(n) == IF n < 10 THEN <<n>> ELSE Append(Digits(n \div 10), n % 10)

\* A plausible slip: the id leaves the counter out.
idUnnumbered(prefix, n) == <<prefix>>

\* `${prefix}${n}`
idOf(prefix, n) == <<prefix>> \o Digits(n)

\* A slot without a chart.
NoChart ==
    [live |-> FALSE, animate |-> FALSE, revealTotalMs |-> 0, width |-> 0,
     clipActualId |-> <<>>, clipPredId |-> <<>>, progressX |-> Null,
     fullyRevealed |-> FALSE, revealStartTs |-> Null, showNoteHist |-> FALSE]

plotX2Of(w) == w - PaddingRight

\* The dependency array of a chart's reveal effect.
DepsOf(c) == <<c.animate, c.revealTotalMs, plotX1, plotX2Of(c.width)>>

\* The callback `loop` of chart i's effect run with dependencies deps.
LoopIn(i, deps) == [owner |-> i, loop |-> LoopOf(deps)]

\* cancelAnimationFrame(raf) in the cleanup of chart i's reveal effect.
Cancelled(i) ==
    IF charts[i].live /\ charts[i].animate
    THEN frameQueue \ {LoopIn(i, DepsOf(charts[i]))}
    ELSE frameQueue

\* clearTimeout(t) in the cleanup of chart i's fade effect.
Cleared(i) == {t \in timeouts : t.owner # i}

\* The first render of a chart in slot i and the effects that follow it: the
\* state initialisers run (two ids drawn from the counter), then the reveal
\* effect pins the progress or schedules the first frame.
MountChart(i, a, ms, w) ==
    /\ ~charts[i].live /\ gid + 2 <= MaxGid
    /\ gid' = gid + 2
    /\ LET c == [live |-> TRUE, animate |-> a, revealTotalMs |-> ms, width |-> w,
                 clipActualId |-> idOf("clip-actual-", gid + 1),
                 clipPredId |-> idOf("clip-pred-", gid + 2),
                 progressX |-> IF a THEN Num(plotX1) ELSE Num(plotX2Of(w)),
                 fullyRevealed |-> ~a, revealStartTs |-> Null,
                 showNoteHist |-> ~a]
       IN /\ charts' = [charts EXCEPT ![i] = c]
          /\ frameQueue' = IF a THEN frameQueue \cup {LoopIn(i, DepsOf(c))}
                           ELSE frameQueue
    /\ UNCHANGED <<timeouts, pageNow>>
    /\ UNCHANGED <<lineVars, dataVars, chartVars, placeVars, revealVars, scaleVars, noteVars, respVars, tickVars, drawVars>>

\* An animation frame stamped pageNow runs the waiting callback f, and the
\* render and effects that follow: the fade timeout is set when the reveal
\* has just completed.
ChartFrame(f) ==
    /\ f \in frameQueue
    /\ LET i == f.owner
           c == charts[i]
           start == IF IsNullish(c.revealStartTs) THEN pageNow ELSE c.revealStartTs.val
           t == tOf(pageNow, start, f.loop.totalMs)
           done == ~BelowOne(t)
       IN /\ charts' = [charts EXCEPT ![i] =
                 [c EXCEPT !.revealStartTs = Num(start),
                           !.progressX = pxOf(f.loop, ease(t)),
                           !.fullyRevealed = c.fullyRevealed \/ done]]
          /\ frameQueue' = IF done THEN frameQueue \ {f} ELSE frameQueue
          /\ timeouts' = IF done /\ ~c.fullyRevealed
                         THEN timeouts \cup {[owner |-> i, due |-> pageNow + AfterRevealDelayMs]}
                         ELSE timeouts
    /\ UNCHANGED <<gid, pageNow>>
    /\ UNCHANGED <<lineVars, dataVars, chartVars, placeVars, revealVars, scaleVars, noteVars, respVars, tickVars, drawVars>>

\* Chart i is rendered with another width: the cleanup of its reveal effect
\* and the effect again, with the new dependencies.
ChartResize(i, w) ==
    /\ charts[i].live /\ w # charts[i].width
    /\ LET c == [charts[i] EXCEPT !.width = w]
       IN IF c.animate
          THEN /\ charts' = [charts EXCEPT ![i] = c]
               /\ frameQueue' = Cancelled(i) \cup {LoopIn(i, DepsOf(c))}
          ELSE /\ charts' = [charts EXCEPT ![i] =
                      [c EXCEPT !.progressX = Num(plotX2Of(w)), !.fullyRevealed = TRUE]]
               /\ frameQueue' = Cancelled(i)
    /\ UNCHANGED <<gid, timeouts, pageNow>>
    /\ UNCHANGED <<lineVars, dataVars, chartVars, placeVars, revealVars, scaleVars, noteVars, respVars, tickVars, drawVars>>

\* The fade timeout t fires.
ChartFade(t) ==
    /\ t \in timeouts /\ pageNow >= t.due
    /\ charts' = [charts EXCEPT ![t.owner].showNoteHist = TRUE]
    /\ timeouts' = timeouts \ {t}
    /\ UNCHANGED <<gid, frameQueue, pageNow>>
    /\ UNCHANGED <<lineVars, dataVars, chartVars, placeVars, revealVars, scaleVars, noteVars, respVars, tickVars, drawVars>>

\* Chart i is torn down: the cleanups of its effects run, its state is gone.
ChartUnmount(i) ==
    /\ charts[i].live
    /\ charts' = [charts EXCEPT ![i] = NoChart]
    /\ frameQueue' = Cancelled(i)
    /\ timeouts' = Cleared(i)
    /\ UNCHANGED <<gid, pageNow>>
    /\ UNCHANGED <<lineVars, dataVars, chartVars, placeVars, revealVars, scaleVars, noteVars, respVars, tickVars, drawVars>>

PageTick ==
    /\ pageNow < MaxTime
    /\ pageNow' = pageNow + 1
    /\ UNCHANGED <<gid, charts, frameQueue, timeouts>>
    /\ UNCHANGED <<lineVars, dataVars, chartVars, placeVars, revealVars, scaleVars, noteVars, respVars, tickVars, drawVars>>

\* What happens to the chart in slot i.
ChartStep(i) ==
    \/ \E a \in BOOLEAN, ms \in InstDurations, w \in Widths : MountChart(i, a, ms, w)
    \/ \E f \in frameQueue : f.owner = i /\ ChartFrame(f)
    \/ \E w \in Widths : ChartResize(i, w)
    \/ \E t \in timeouts : t.owner = i /\ ChartFade(t)
    \/ ChartUnmount(i)

InstInit ==
    /\ gid = 0
    /\ charts = [i \in Instances |-> NoChart]
    /\ frameQueue = {} /\ timeouts = {} /\ pageNow = 0
    /\ LineIdle /\ DataIdle /\ ChartIdle /\ PlaceIdle /\ RevealIdle /\ ScaleIdle /\ NoteIdle /\ RespIdle /\ TickIdle /\ DrawIdle

InstNext ==
    \/ \E i \in Instances, a \in BOOLEAN, ms \in InstDurations, w \in Widths : MountChart(i, a, ms, w)
    \/ \E f \in frameQueue : ChartFrame(f)
    \/ \E i \in Instances, w \in Widths : ChartResize(i, w)
    \/ \E t \in timeouts : ChartFade(t)
    \/ \E i \in Instances : ChartUnmount(i)
    \/ PageTick

SpecInstances == InstInit /\ [][InstNext]_vars


\* ---------------------------------------------- self-animating LineSeries
\* The number of draw animations started stops at MaxDraws.
MaxDraws == 2

\* The props the draw effect depends on: the path d of two series, the
\* durations and delays in clock units.
DrawProps ==
    [d : {"M0,0L1,1", "M0,1L1,0"}, animateDraw : BOOLEAN,
     durationMs : {1, 2}, delayMs : {0, 1}]

\* The dependency array of the draw effect.
DrawDepsOf(p) == <<p.d, p.animateDraw, p.durationMs, p.delayMs>>

\* The cleanup of the effect run `run`: clearTimeout(t).  The function the
\* timeout callback returns is dropped by setTimeout, so `done` stays.
DrawCleanup(run) == {tm \in drawTimers : ~(tm.run = run /\ tm.kind = "t")}

\* The draw effect of a render runs, the cleanup of the last run first: with
\* animateDraw it hides the stroke and sets the timeout t of a new run.
DrawEffect ==
    /\ drawMounted /\ drawDeps # DrawDepsOf(drawProps) /\ drawRun < MaxDraws
    /\ drawDeps' = DrawDepsOf(drawProps)
    /\ IF drawProps.animateDraw
       THEN /\ drawRun' = drawRun + 1
            /\ drawCurrent' = drawRun + 1
            /\ drawTimers' = DrawCleanup(drawCurrent) \cup
                  {[kind |-> "t", run |-> drawRun + 1,
                    due |-> drawNow + drawProps.delayMs,
                    durationMs |-> drawProps.durationMs]}
       ELSE /\ drawCurrent' = 0
            /\ drawTimers' = DrawCleanup(drawCurrent)
            /\ UNCHANGED drawRun
    /\ UNCHANGED <<drawMounted, drawProps, drawNow, drawEnds, lateEnds>>
    /\ UNCHANGED <<lineVars, dataVars, chartVars, placeVars, revealVars, scaleVars, noteVars, respVars, tickVars, instVars>>

\* The timeout t of a run fires: the stroke starts to draw and the timeout
\* `done` is set.
DrawStart(tm) ==
    /\ tm \in drawTimers /\ tm.kind = "t" /\ drawNow >= tm.due
    /\ drawTimers' = (drawTimers \ {tm}) \cup
          {[tm EXCEPT !.kind = "done", !.due = drawNow + tm.durationMs]}
    /\ UNCHANGED <<drawMounted, drawProps, drawDeps, drawRun, drawCurrent,
                   drawNow, drawEnds, lateEnds>>
    /\ UNCHANGED <<lineVars, dataVars, chartVars, placeVars, revealVars, scaleVars, noteVars, respVars, tickVars, instVars>>

\* The timeout `done` of a run fires: onDrawEnd?.()
DrawDone(tm) ==
    /\ tm \in drawTimers /\ tm.kind = "done" /\ drawNow >= tm.due
    /\ drawTimers' = drawTimers \ {tm}
    /\ drawEnds' = [drawEnds EXCEPT ![tm.run] = @ + 1]
    /\ lateEnds' = IF tm.run = drawCurrent THEN lateEnds ELSE lateEnds \cup {tm.run}
    /\ UNCHANGED <<drawMounted, drawProps, drawDeps, drawRun, drawCurrent, drawNow>>
    /\ UNCHANGED <<lineVars, dataVars, chartVars, placeVars, revealVars, scaleVars, noteVars, respVars, tickVars, instVars>>

\* A render with other props, once the effect of the last render has run.
DrawSetProps(p) ==
    /\ drawMounted /\ drawDeps = DrawDepsOf(drawProps) /\ p # drawProps
    /\ drawProps' = p
    /\ UNCHANGED <<drawMounted, drawDeps, drawRun, drawCurrent, drawTimers,
                   drawNow, drawEnds, lateEnds>>
    /\ UNCHANGED <<lineVars, dataVars, chartVars, placeVars, revealVars, scaleVars, noteVars, respVars, tickVars, instVars>>

\* The component is torn down: the cleanup of the last effect run.
DrawUnmount ==
    /\ drawMounted /\ drawDeps = DrawDepsOf(drawProps)
    /\ drawMounted' = FALSE
    /\ drawCurrent' = 0
    /\ drawTimers' = DrawCleanup(drawCurrent)
    /\ UNCHANGED <<drawProps, drawDeps, drawRun, drawNow, drawEnds, lateEnds>>
    /\ UNCHANGED <<lineVars, dataVars, chartVars, placeVars, revealVars, scaleVars, noteVars, respVars, tickVars, instVars>>

DrawTick ==
    /\ drawNow < MaxTime
    /\ drawNow' = drawNow + 1
    /\ UNCHANGED <<drawMounted, drawProps, drawDeps, drawRun, drawCurrent,
                   drawTimers, drawEnds, lateEnds>>
    /\ UNCHANGED <<lineVars, dataVars, chartVars, placeVars, revealVars, scaleVars, noteVars, respVars, tickVars, instVars>>

DrawInit ==
    /\ drawMounted = TRUE
    /\ drawProps \in DrawProps
    /\ drawDeps = <<>>
    /\ drawRun = 0 /\ drawCurrent = 0 /\ drawTimers = {} /\ drawNow = 0
    /\ drawEnds = [run \in 1..MaxDraws |-> 0]
    /\ lateEnds = {}
    /\ LineIdle /\ DataIdle /\ ChartIdle /\ PlaceIdle /\ RevealIdle /\ ScaleIdle /\ NoteIdle /\ RespIdle /\ TickIdle /\ InstIdle

DrawNext ==
    \/ DrawEffect
    \/ \E tm \in drawTimers : DrawStart(tm)
    \/ \E tm \in drawTimers : DrawDone(tm)
    \/ \E p \in DrawProps : DrawSetProps(p)
    \/ DrawUnmount
    \/ DrawTick

SpecDraw == DrawInit /\ [][DrawNext]_vars

\* --------------------------------------------------------------- claim C1
IsDrawable(s, i) == ~IsGap(At(s, i))

PointOf(s, i) == XY(Scale(LineXOf, i), Scale(LineYOf, At(s, i).val))

\* The segment seg joins two adjacent, defined, finite entries of s.
JoinsAdjacentDefined(s, seg) ==
    \E i \in 0..(Len(s) - 2) :
        /\ IsDrawable(s, i) /\ IsDrawable(s, i + 1)
        /\ seg[1] = PointOf(s, i) /\ seg[2] = PointOf(s, i + 1)

\* No segment has an endpoint at the x of an index whose entry is a gap.
NoSegmentTouchesGap(s, segments) ==
    \A i \in 0..(Len(s) - 1) :
        IsGap(At(s, i)) =>
            \A seg \in segments : seg[1].x # Scale(LineXOf, i) /\ seg[2].x # Scale(LineXOf, i)

\* C1: every line segment either renderer emits joins two adjacent indices
\* i, i+1 whose entries are both defined and finite, and no emitted segment
\* touches an index whose entry is absent or non-finite.
C1_NoSegmentAcrossGap ==
    /\ \A seg \in SegsSegments(segs) : JoinsAdjacentDefined(series, seg)
    /\ \A seg \in PathSegments(d) : JoinsAdjacentDefined(series, seg)
    /\ NoSegmentTouchesGap(series, SegsSegments(segs))
    /\ NoSegmentTouchesGap(series, PathSegments(d))

\* A series with a gap next to a drawn segment, drawn by both renderers.
C1_Witness ==
    /\ \E i \in 0..(Len(series) - 1) : IsGap(At(series, i))
    /\ \E i \in 0..(Len(series) - 1) : At(series, i) = NonFinite
    /\ SegsSegments(segs) # {}
    /\ PathSegments(d) # {}

\* --------------------------------------------------------------- claim C2
\* Entries i of a and b agree at every index but k (a hole and a read past
\* the end are both undefined).
SameExceptAt(a, b, k) ==
    \A i \in 0..(Max(Len(a), Len(b)) - 1) : i # k => At(a, i) = At(b, i)

C2_Stitched ==
    rendered =>
        /\ (anchorAtCurrent /\ lastActualIndex >= 0
                /\ IsNullish(At(predicted, lastActualIndex))) =>
              /\ predictedForDraw.ref = "arr"
              /\ At(predictedForDraw.items, lastActualIndex) = At(actual, lastActualIndex)
              /\ SameExceptAt(predictedForDraw.items, predicted, lastActualIndex)
        /\ (lastActualIndex >= 0 /\ ~IsNullish(At(predicted, lastActualIndex))) =>
              At(predictedForDraw.items, lastActualIndex) = At(predicted, lastActualIndex)

\* C2: with continuity on, lastActualIndex >= 0 and predicted[lastActualIndex]
\* absent, the series drawn is a new array holding actual[lastActualIndex]
\* there and equal to predicted everywhere else; no render changes the
\* caller's predicted array, and a value present at predicted[lastActualIndex]
\* is never overwritten.
C2_StitchCopiesAnchor == []C2_Stitched /\ [][predicted' = predicted]_vars

\* The spec's example in small: actual defined before the split, predicted
\* absent there and defined after it, and the anchor copied in.
C2_Witness ==
    /\ rendered /\ anchorAtCurrent /\ lastActualIndex >= 0
    /\ lastActualIndex < predictStartIndex - 1
    /\ IsNullish(At(predicted, lastActualIndex))
    /\ \E i \in 0..(Len(predicted) - 1) : At(predicted, i) = Num(2)
    /\ At(predictedForDraw.items, lastActualIndex) = Num(1)

\* ------------------------------------------------------ claims C3 .. C7
\* The cells of the grid.
Cells == {[ci |-> c, ri |-> r] : c \in 0..(opts.cols - 1), r \in 0..(opts.rows - 1)}

\* a = b on distances / scores.
Same(a, b) == ~Gt(a, b) /\ ~Gt(b, a)

\* dd is the distance from (px, py) to segment s: it is attained at an end of
\* s or at the foot of the perpendicular when the foot lies on s, and no point
\* of those is nearer.
IsSegDistance(dd, px, py, s) ==
    LET C == s.x2 - s.x1
        D == s.y2 - s.y1
        dot == (px - s.x1) * C + (py - s.y1) * D
        e1 == Finite((px - s.x1) * (px - s.x1) + (py - s.y1) * (py - s.y1), 1)
        e2 == Finite((px - s.x2) * (px - s.x2) + (py - s.y2) * (py - s.y2), 1)
        cross == (px - s.x1) * D - (py - s.y1) * C
        onSeg == C * C + D * D > 0 /\ 0 <= dot /\ dot <= C * C + D * D
        foot == Finite(cross * cross, OrOne(C * C + D * D))
    IN /\ ~Gt(dd, e1) /\ ~Gt(dd, e2) /\ (onSeg => ~Gt(dd, foot))
       /\ (Same(dd, e1) \/ Same(dd, e2) \/ (onSeg /\ Same(dd, foot)))

\* The least of the distances from the centre of cell c to the segments
\* (infinite when there are none), times forecastBias from splitX on.
CellScore(c) ==
    LET sgs == allSegs(actual, predicted, historical, opts)
        gx == gridX(opts, c.ci)
        gy == gridY(opts, c.ri)
        ds == {distPointToSeg(gx, gy, sgs[k]) : k \in 1..Len(sgs)}
        m == IF ds = {} THEN Infinite ELSE CHOOSE x \in ds : \A y \in ds : ~Gt(x, y)
    IN IF m.inf THEN Infinite
       ELSE IF gx >= Scale(opts.xOfIndex, opts.predictStartIndex)
            THEN Finite(m.n * opts.forecastBias[1] * opts.forecastBias[1],
                        m.d * opts.forecastBias[2] * opts.forecastBias[2])
       ELSE m

\* The cell the search selected.
BestCell == [ci |-> best.ci, ri |-> best.ri]

\* C3: the callout is anchored on the centre of a grid cell whose biased
\* score (least clamped point-to-segment distance, times forecastBias when
\* the cell's x >= xOfIndex(predictStartIndex)) no other cell exceeds.
C3_AnchorsOnLargestScore ==
    placed =>
        /\ best.some /\ BestCell \in Cells
        /\ 2 * opts.cols * (best.x - opts.plotX1) = (2 * best.ci + 1) * (opts.plotX2 - opts.plotX1)
        /\ 2 * opts.rows * (best.y - opts.plotY1) = (2 * best.ri + 1) * (opts.plotY2 - opts.plotY1)
        /\ Same(best.score, CellScore(BestCell))
        /\ \A c \in Cells : ~Gt(CellScore(c), best.score)
        /\ LET sgs == allSegs(actual, predicted, historical, opts)
           IN \A c \in Cells : \A k \in 1..Len(sgs) :
                  IsSegDistance(distPointToSeg(gridX(opts, c.ci), gridY(opts, c.ri), sgs[k]),
                                gridX(opts, c.ci), gridY(opts, c.ri), sgs[k])
        /\ (opts.plotX1 + opts.inset <= best.x + 8
              /\ best.x + 8 <= opts.plotX2 - opts.inset - opts.noteWidth)
             => placement.left = best.x + 8
        /\ (opts.plotY1 + opts.inset <= best.y - opts.noteHeight - 8
              /\ best.y - opts.noteHeight - 8 <= opts.plotY2 - opts.inset - opts.noteHeight)
             => placement.top = best.y - opts.noteHeight - 8

\* The bias decides: a cell left of splitX is strictly farther from the lines
\* than the selected cell, which lies at or right of splitX.
C3_Witness ==
    /\ placed /\ best.some
    /\ best.x >= Scale(opts.xOfIndex, opts.predictStartIndex)
    /\ \E c \in Cells :
          /\ gridX(opts, c.ci) < Scale(opts.xOfIndex, opts.predictStartIndex)
          /\ Gt(scoreUnbiased(allSegs(actual, predicted, historical, opts), opts, c.ci, c.ri),
                scoreUnbiased(allSegs(actual, predicted, historical, opts), opts, best.ci, best.ri))

\* Position of a cell in a column-by-column scan and in a row-by-row scan.
ColumnMajorRank(c) == c.ci * opts.rows + c.ri

RowMajorRank(c) == c.ri * opts.cols + c.ci

\* Cell c scores what the selected cell scores.
TiedWithBest(c) == Same(CellScore(c), best.score)

\* C4 as stated: among the cells sharing the largest score the selected one
\* comes first in row-major order.
C4_FirstInRowMajor ==
    placed => \A c \in Cells : TiedWithBest(c) => RowMajorRank(BestCell) <= RowMajorRank(c)

\* C4, amended: among the cells sharing the largest score the selected one
\* comes first in column-major order (ci outer, ri inner).
C4_FirstInColumnMajor ==
    placed =>
        /\ \A c \in Cells : ~Gt(CellScore(c), best.score)
        /\ \A c \in Cells : TiedWithBest(c) => ColumnMajorRank(BestCell) <= ColumnMajorRank(c)

\* A tie between cells at a finite distance in which the two orders disagree.
C4_Witness ==
    /\ placed /\ ~best.score.inf
    /\ \E c \in Cells :
          c # BestCell /\ TiedWithBest(c) /\ RowMajorRank(c) < RowMajorRank(BestCell)

\* The point the callout is based on: best?.x ?? centre, best?.y ?? centre.
BaseX == IF best.some THEN best.x ELSE (opts.plotX1 + opts.plotX2) \div 2

BaseY == IF best.some THEN best.y ELSE (opts.plotY1 + opts.plotY2) \div 2

\* A callout put at the centre of the plot rectangle would be clear of the
\* edges, so that its pointer side would be the default.
CentreIsClear ==
    LET o == opts
        left == clamp((o.plotX1 + o.plotX2) \div 2 + 8, o.plotX1 + o.inset,
                      o.plotX2 - o.inset - o.noteWidth)
        top == clamp((o.plotY1 + o.plotY2) \div 2 - o.noteHeight - 8, o.plotY1 + o.inset,
                     o.plotY2 - o.inset - o.noteHeight)
    IN arrowSideOf(left, top, o) = "top"

\* C5: with no segment at all the callout is based on the centre of the plot
\* rectangle, and its pointer side is the default "top" (wherever a callout
\* at the centre is clear of the edges).
C5_EmptyFallsBackToCentre ==
    (placed /\ allSegs(actual, predicted, historical, opts) = <<>>) =>
        /\ 2 * BaseX = opts.plotX1 + opts.plotX2
        /\ 2 * BaseY = opts.plotY1 + opts.plotY2
        /\ CentreIsClear => placement.arrowSide = "top"

FitsAcross == opts.noteWidth + 2 * opts.inset <= opts.plotX2 - opts.plotX1

FitsDown == opts.noteHeight + 2 * opts.inset <= opts.plotY2 - opts.plotY1

InsideAcross ==
    /\ opts.plotX1 + opts.inset <= placement.left
    /\ placement.left + opts.noteWidth <= opts.plotX2 - opts.inset

InsideDown ==
    /\ opts.plotY1 + opts.inset <= placement.top
    /\ placement.top + opts.noteHeight <= opts.plotY2 - opts.inset

\* C6 as stated: for every input the callout, padded by the inset, lies
\* inside the plot rectangle.
C6_AlwaysInside == placed => InsideAcross /\ InsideDown

\* C6, amended: the padded callout lies inside the plot rectangle along each
\* axis on which it fits; along an axis on which it does not fit it is put
\* at the inset from the left (top) edge.
C6_InsideWhenItFits ==
    placed =>
        /\ IF FitsAcross THEN InsideAcross ELSE placement.left = opts.plotX1 + opts.inset
        /\ IF FitsDown THEN InsideDown ELSE placement.top = opts.plotY1 + opts.inset

\* A callout that fits and that clamping moved left, back inside.
C6_Witness ==
    /\ placed /\ FitsAcross /\ FitsDown
    /\ best.x + 8 > opts.plotX2 - opts.inset - opts.noteWidth
    /\ placement.left = opts.plotX2 - opts.inset - opts.noteWidth

HitTop == placement.top = opts.plotY1 + opts.inset

HitLeft == placement.left = opts.plotX1 + opts.inset

HitRight == placement.left = opts.plotX2 - opts.inset - opts.noteWidth

\* C7 as stated: the pointer side follows the clamped boundary that was hit,
\* the top edge first, then the left, then the right.
C7_TopEdgeFirst ==
    (placed /\ FitsAcross /\ FitsDown) =>
        placement.arrowSide =
            IF HitTop THEN "bottom"
            ELSE IF HitLeft THEN "right"
            ELSE IF HitRight THEN "left"
            ELSE "top"

NearTop == placement.top <= opts.plotY1 + opts.inset + 4

NearLeft == placement.left <= opts.plotX1 + opts.inset + 4

NearRight == placement.left >= opts.plotX2 - opts.noteWidth - opts.inset - 4

\* C7, amended: the pointer side follows the edges the callout ends within
\* inset + 4 px of, the right edge first, then the left, then the top.
C7_RightEdgeFirst ==
    placed =>
        placement.arrowSide =
            IF NearRight THEN "left"
            ELSE IF NearLeft THEN "right"
            ELSE IF NearTop THEN "bottom"
            ELSE "top"

\* A callout at the top edge and at the left edge, away from the right one.
C7_Witness ==
    /\ placed /\ FitsAcross /\ FitsDown /\ HitTop /\ HitLeft /\ ~NearRight
    /\ placement.arrowSide = "right"
\* -------------------------------------------------------- claims C9, C10
\* The reveal progress is a fraction in [0,1]: progressX is a number between
\* plotX1 (progress 0) and plotX2 (progress 1).
ProgressInUnit ==
    /\ progressX.tag = "num"
    /\ plotX1 <= progressX.val /\ progressX.val <= plotX2

ProgressIsOne == progressX = Num(plotX2)

\* The frame that ran was stamped revealTotalMs or more after the first one.
DurationElapsed == now - revealStartTs.val >= revealTotalMs

\* C9: while the chart animates with its inputs held, the reveal progress
\* lies in [0,1] in every state, does not decrease from frame to frame, and
\* is exactly 1 after every frame stamped revealTotalMs or more after the
\* first frame.
C9_ProgressRisesToOne ==
    /\ []((mounted /\ animate) => ProgressInUnit)
    /\ [][(mounted /\ animate /\ FrameStep) =>
            /\ ProgressInUnit'
            /\ progressX'.val >= progressX.val
            /\ DurationElapsed' => ProgressIsOne']_vars

\* C10: after a change of dataset, canvas size or animation toggle made
\* mid-reveal, the reveal starts over: until the next frame the progress is
\* 0 and nothing is complete, the frames that follow measure from a start
\* stamp taken after the change, and a set Complete flag belongs to a run
\* that lasted its duration from that start.
C10_ChangeRestartsReveal ==
    (mounted /\ animate /\ effectDeps = Deps /\ changedAt # Null) =>
        IF IsNullish(revealStartTs)
        THEN progressX = Num(plotX1) /\ ~fullyRevealed
        ELSE /\ revealStartTs.val >= changedAt.val
             /\ fullyRevealed => DurationElapsed

\* ---------------------------------------------------------------- claim C11
\* C11: at most one callback waits for the next frame, and a waiting callback
\* belongs to the latest run of the reveal effect of a mounted chart: once
\* the chart is torn down, or the effect has re-run for new animation inputs,
\* no callback of the earlier run is left to update the reveal state.
C11_OnePendingCallback ==
    /\ Cardinality(rafQueue) <= 1
    /\ rafQueue # {} =>
          /\ mounted
          /\ effectDeps # <<>> /\ effectDeps[1]
          /\ rafQueue = {LoopOf(effectDeps)}

\* A chart torn down in the middle of a reveal.
C11_Witness ==
    /\ ~mounted /\ animate /\ ~fullyRevealed /\ ~IsNullish(revealStartTs)
    /\ progressX.tag = "num" /\ progressX.val > plotX1
    /\ rafQueue = {}

\* ------------------------------------------------------ claims C12 .. C14
\* The reveal progress is below 1: the boundary is left of plotX2.
ProgressBelowOne == progressX.tag = "num" /\ progressX.val < plotX2

\* The effects of the last render have run.
EffectsFlushed == effectDeps = Deps /\ fadeDeps = FadeDeps

\* C12: with animation enabled, the historical lines and the annotation are
\* at opacity 0 (showNoteHist is false) in every state in which the reveal
\* progress is below 1, and they become visible only from a state that is
\* fully revealed.
C12_HiddenUntilRevealed ==
    /\ []((mounted /\ animate /\ EffectsFlushed /\ ProgressBelowOne) => ~showNoteHist)
    /\ [][(~showNoteHist /\ showNoteHist') => (fullyRevealed /\ ~ProgressBelowOne)]_vars

\* C13: with animation disabled the historical lines and the annotation are
\* at full opacity, once the effects of the render have run.
C13_VisibleWhenNotAnimated ==
    (mounted /\ ~animate /\ EffectsFlushed) => showNoteHist

\* C14: with animation disabled every render, the first included, has the
\* boundary at plotX2 and both series unclipped.
C14_UnclippedWhenNotAnimated ==
    (mounted /\ ~animate) =>
        /\ progressX = Num(plotX2)
        /\ actualClipWidth = Num(plotX2 - plotX1)
        /\ predClipWidth = Num(plotX2 - splitX)

\* ---------------------------------------------------------------- claim C15
\* The polylines the chart draws for the forecast: LineSeries over
\* predictedForDraw.
forecastSegs == LineSeriesSegs(predictedForDraw.items, LineXOf, LineYOf)

\* predicted has a defined, finite value at or after predictStartIndex.
HasForecast ==
    \E j \in 0..(Len(predicted) - 1) : j >= predictStartIndex /\ IsDrawable(predicted, j)

MeetsAtAnchor ==
    \E seg \in SegsSegments(forecastSegs) :
        /\ seg[1] = PointOf(actual, lastActualIndex)
        /\ seg[2] = PointOf(predicted, lastActualIndex + 1)

GreatestDefinedBelow(bound) ==
    LET S == {i \in 0..(Len(actual) - 1) : i < bound /\ IsDrawable(actual, i)}
    IN IF S = {} THEN -1 ELSE CHOOSE i \in S : \A k \in S : k <= i

\* Without a last actual index the forecast is drawn from data.predicted itself.
NoOpWithoutAnchor ==
    lastActualIndex = -1 =>
        predictedForDraw = [ref |-> "data.predicted", items |-> predicted]

\* C16: for every predictStartIndex and all lengths, lastActualIndex is the
\* greatest index below predictStartIndex at which actual is defined and
\* finite, or none (-1); with none, continuity is a no-op.
C16_GreatestBelowStart ==
    rendered =>
        /\ lastActualIndex = GreatestDefinedBelow(predictStartIndex)
        /\ NoOpWithoutAnchor

\* C16, amended: the index is the greatest one below both predictStartIndex
\* and the number of labels.
C16_GreatestBelowStartAndLabels ==
    rendered =>
        /\ lastActualIndex = GreatestDefinedBelow(Min(predictStartIndex, labelsLength))
        /\ NoOpWithoutAnchor

\* actual has a defined value past the labels and before predictStartIndex,
\* and another one within the labels.
C16_Witness ==
    /\ rendered /\ lastActualIndex >= 0
    /\ labelsLength < predictStartIndex
    /\ GreatestDefinedBelow(predictStartIndex) >= labelsLength

\* ---------------------------------------------------------------- claim C17
\* The ends of the connector within the chart's n steps: the last defined
\* actual before predictStartIndex, the first defined predicted at or after it.
ActualEnds ==
    {i \in 0..(labelsLength - 1) : i < predictStartIndex /\ IsDrawable(actual, i)}

PredictedEnds ==
    {j \in 0..(labelsLength - 1) : j >= predictStartIndex /\ IsDrawable(predicted, j)}

MaximalRuns ==
    {r \in (0..(Len(series) - 1)) \X (0..(Len(series) - 1)) :
        /\ r[1] < r[2]
        /\ \A i \in r[1]..r[2] : IsDrawable(series, i)
        /\ ~IsDrawable(series, r[1] - 1)
        /\ ~IsDrawable(series, r[2] + 1)}

RunPoints(r) == [k \in 1..(r[2] - r[1] + 1) |-> PointOf(series, r[1] + k - 1)]

\* The segments between all adjacent defined, finite entries.
AdjacentPairs ==
    {<<PointOf(series, i), PointOf(series, i + 1)>> :
        i \in {k \in 0..(Len(series) - 2) : IsDrawable(series, k) /\ IsDrawable(series, k + 1)}}

\* An entry with a gap, or nothing, on both sides.
IsolatedPoints ==
    {i \in 0..(Len(series) - 1) :
        IsDrawable(series, i) /\ ~IsDrawable(series, i - 1) /\ ~IsDrawable(series, i + 1)}

C19_NiceDomainContains ==
    niceOut # <<>> =>
        LET min == domainArg[1]
            max == domainArg[2]
        IN /\ fLt(min, max) => fLe(niceOut.lo, min) /\ fLe(max, niceOut.hi)
           /\ min = max =>
                /\ niceOut.lo = fsub(min, FromInt(1))
                /\ niceOut.hi = fadd(max, FromInt(1))

\* -------------------------------------------------------------- claim C20
\* The defined, finite entries of one series, and of all series of a list.
DefinedOf(values) == {values[i].val : i \in {j \in 1..Len(values) : ~IsGap(values[j])}}

UnionDefined(list) == UNION {DefinedOf(list[k]) : k \in 1..Len(list)}

Smallest(S) == CHOOSE x \in S : \A y \in S : x <= y

Largest(S) == CHOOSE x \in S : \A y \in S : x >= y

RangeOf(S) == IF S = {} THEN <<0, 1>> ELSE <<Smallest(S), Largest(S)>>

\* The list without its k-th series.
Without(list, k) == [j \in 1..(Len(list) - 1) |-> IF j < k THEN list[j] ELSE list[j + 1]]

\* extent over the defined entries of its series; extentFromSeries over the
\* union, unchanged by leaving out a series without defined entries.
ExtentIsRangeOfDefined ==
    /\ extentOut.fn = "extent" =>
           extentOut.range = RangeOf(DefinedOf(seriesList[extentOut.arg]))
    /\ extentOut.fn = "extentFromSeries" =>
           /\ extentOut.range = RangeOf(UnionDefined(seriesList))
           /\ \A k \in 1..Len(seriesList) :
                  DefinedOf(seriesList[k]) = {} =>
                      extentFromSeries(Without(seriesList, k)) = extentOut.range

\* C20 as stated: extent(series) is [smallest, largest] of the defined finite
\* entries and [0, 1] when there is none; extentFromSeries(list) is the same
\* over the union of all series, a series without a defined value does not
\* widen it, and it is [0, 1] only when no series has a defined value.
C20_ZeroOneOnlyWhenEmpty ==
    extentOut # <<>> =>
        /\ ExtentIsRangeOfDefined
        /\ extentOut.fn = "extentFromSeries" =>
               (extentOut.range = <<0, 1>> <=> UnionDefined(seriesList) = {})

\* C20 (amended): as above, but extentFromSeries(list) is [0, 1] exactly when
\* no series has a defined value or the smallest defined value is 0 and the
\* largest is 1.
C20_ZeroOneWhenEmptyOrZeroOne ==
    extentOut # <<>> =>
        /\ ExtentIsRangeOfDefined
        /\ extentOut.fn = "extentFromSeries" =>
               (extentOut.range = <<0, 1>> <=>
                    \/ UnionDefined(seriesList) = {}
                    \/ /\ Smallest(UnionDefined(seriesList)) = 0
                       /\ Largest(UnionDefined(seriesList)) = 1)

\* extentFromSeries has returned [0, 1] for two series, one of them all gaps,
\* the other holding 1 before 0.
C20_Witness ==
    /\ extentOut # <<>> /\ extentOut.fn = "extentFromSeries"
    /\ extentOut.range = <<0, 1>>
    /\ Len(seriesList) = 2
    /\ Len(seriesList[1]) = 2 /\ DefinedOf(seriesList[1]) = {}
    /\ seriesList[2] = <<Num(1), Num(0)>>

\* -------------------------------------------------------------- claim C21
\* C21: in every render pass the annotation is positioned at the
\* PlacementResult placeNoteAuto yields for the current dataset, the current
\* plot rectangle (width, height and padding) and the current continuity and
\* clip-to-now flags.
C21_NoteIsCurrent == notePlacement = notePlacementOf(noteProps)

\* -------------------------------------------------------------- claim C22
\* The chart of the last render has the width and the clamped height the
\* measured width gives.
DrawnFromMeasured ==
    /\ size > 0
    /\ 4 * drawn.width <= size /\ size < 4 * (drawn.width + 1)
    /\ LET ideal == (drawn.width * respProps.aspectRatio[2]) \div respProps.aspectRatio[1]
       IN drawn.height = IF ideal < respProps.minHeight THEN respProps.minHeight
                         ELSE IF ideal > respProps.maxHeight
                              THEN Max(respProps.minHeight, respProps.maxHeight)
                         ELSE ideal

\* C22 as stated: the chart is drawn only when the measured width is > 0,
\* with width = floor(measured width) and height = floor(width / aspectRatio)
\* clamped to [minHeight, maxHeight], so minHeight <= height <= maxHeight.
C22_HeightWithinMinMax ==
    /\ respMounted /\ size = 0 => drawn = <<>>
    /\ drawn # <<>> =>
           /\ DrawnFromMeasured
           /\ respProps.minHeight <= drawn.height
           /\ drawn.height <= respProps.maxHeight

\* C22 (amended): as above, with minHeight <= height always and
\* height <= maxHeight whenever minHeight <= maxHeight; with
\* minHeight > maxHeight the height is minHeight.
C22_HeightWithinMinMaxWhenOrdered ==
    /\ respMounted /\ size = 0 => drawn = <<>>
    /\ drawn # <<>> =>
           /\ DrawnFromMeasured
           /\ respProps.minHeight <= drawn.height
           /\ respProps.minHeight <= respProps.maxHeight =>
                  drawn.height <= respProps.maxHeight
           /\ respProps.minHeight > respProps.maxHeight =>
                  drawn.height = respProps.minHeight

\* A chart is drawn for a container of 600.25 px with the default props: 600
\* wide, 337 high.
C22_Witness ==
    /\ drawn # <<>> /\ size = 2401
    /\ respProps.aspectRatio = <<16, 9>> /\ respProps.minHeight = 280
    /\ drawn.width = 600 /\ drawn.height = 337

\* -------------------------------------------------------------- claim C23
\* C23: the size observer is subscribed at mount and disconnected at
\* teardown: while mounted the render shows the size last delivered, and no
\* size update is applied to the component after the teardown.
C23_ObserverFollowsMount ==
    /\ ~lateUpdate
    /\ observing => respMounted /\ subscribed
    /\ pending => observing
    /\ respMounted => drawn = renderResponsive(size, respProps)
    /\ respMounted /\ subscribed /\ ~pending => size = elWidth

\* The component was torn down after a delivery, the container has changed
\* width since, and nothing is left to deliver.
C23_Witness ==
    /\ ~respMounted /\ subscribed /\ size > 0 /\ elWidth # size
    /\ ~observing /\ ~pending

\* -------------------------------------------------------------- claim C27
\* C27: whenever the chart draws anything, the plot rectangle is valid:
\* left <= right and top <= bottom after subtracting the padding.
C27_PlotRectangleValid ==
    drawn # <<>> =>
        /\ PaddingLeft <= drawn.width - PaddingRight
        /\ PaddingTop <= drawn.height - PaddingBottom

\* -------------------------------------------------------------- claim C24
TickSet == {xTicks.ticks[k] : k \in 1..Len(xTicks.ticks)}

FilterUnset == tickArgs.xTickMonths.tag = "null" \/ Len(tickArgs.xTickMonths.items) = 0

\* The indices whose label month is in the filter.
Matching ==
    {i \in 0..(Len(tickArgs.months) - 1) :
        \E k \in 1..Len(tickArgs.xTickMonths.items) :
            tickArgs.months[i + 1] = tickArgs.xTickMonths.items[k]}

\* C24: without a month filter the ticks are indices in 0..n-1, at most
\* xMaxTicks of them, the final index n-1 among them whenever n > 0; with a
\* month filter they are exactly the indices whose label month is in the
\* filter, or only the final index when no label matches.
C24_TicksCappedOrFiltered ==
    xTicks # <<>> =>
        LET n == Len(tickArgs.months)
        IN /\ Cardinality(TickSet) = Len(xTicks.ticks)
           /\ FilterUnset =>
                  /\ TickSet \subseteq 0..(n - 1)
                  /\ Len(xTicks.ticks) <= tickArgs.xMaxTicks
                  /\ n > 0 => (n - 1) \in TickSet
           /\ ~FilterUnset =>
                  /\ Matching # {} => TickSet = Matching
                  /\ Matching = {} /\ n > 0 => TickSet = {n - 1}

\* -------------------------------------------------------------- claim C25
\* The segments placeNoteAuto measures against for s, as point pairs.
MeasuredPairs(s) ==
    LET sg == collectSegmentsFromSeries(s, LineXOf, LineYOf)
    IN {<<XY(sg[k].x1, sg[k].y1), XY(sg[k].x2, sg[k].y2)>> : k \in 1..Len(sg)}

\* The consecutive point pairs of the polylines LineSeries draws for s.
DrawnPairs(s) == SegsSegments(LineSeriesSegs(s, LineXOf, LineYOf))

\* For every series: the same pairs, each measured once.
RunSplittingAgrees ==
    \A s \in AllSeries :
        /\ MeasuredPairs(s) = DrawnPairs(s)
        /\ Len(collectSegmentsFromSeries(s, LineXOf, LineYOf)) = Cardinality(DrawnPairs(s))

\* C25: the segments placeNoteAuto measures against are exactly the
\* consecutive point pairs of the polylines LineSeries draws for the series,
\* and the series the chart hands to placeNoteAuto (actual, the stitched
\* predicted, each historical series after the optional clip-to-now) are
\* the series it draws.
C25_MeasuredIsDrawn ==
    /\ RunSplittingAgrees
    /\ notePlacement # NoNote =>
           LET dr == drawnSeriesOf(noteProps)
           IN noteSeries = <<dr.actual, dr.predicted, dr.historical>>

\* A note is shown for a stitched forecast and a clipped historical series,
\* computed by a render pass before the latest one.
C25_Witness ==
    /\ notePlacement # NoNote
    /\ noteProps.anchorAtCurrent /\ noteProps.historicalClipToNow
    /\ noteSeries[2] # noteProps.data.predicted
    /\ Len(noteSeries[3]) = 1 /\ noteSeries[3][1] # noteProps.data.historicalPredictions[1].values
    /\ notePlacement # notePlacementOf(noteProps)

\* -------------------------------------------------------------- claim C26
\* The boundary of the frame, capped at plotRight.
CappedBoundary == Min(progressX.val, plotX2)

\* C26: in every rendered frame the actual series is clipped to
\* [plotLeft, boundary] and the forecast series to
\* [splitX, max(splitX, boundary)], the boundary capped at plotRight: the
\* forecast clip is empty while the boundary is at or left of splitX, and
\* neither clip rectangle has a negative width or reaches right of plotRight,
\* the frame after a resize included.
C26_ClipsFollowBoundary ==
    mounted =>
        /\ progressX.tag = "num"
        /\ actualClipWidth = Num(Max(plotX1, CappedBoundary) - plotX1)
        /\ predClipWidth = Num(Max(splitX, CappedBoundary) - splitX)
        /\ progressX.val <= splitX => predClipWidth = Num(0)
        /\ actualClipWidth.val >= 0 /\ predClipWidth.val >= 0
        /\ plotX1 + actualClipWidth.val <= plotX2
        /\ splitX + predClipWidth.val <= plotX2


\* ---------------------------------------------------------------- claim C28
\* The chart with its inputs held, where React runs the effects of a render,
\* the browser delivers the frames it was asked for, timers fire and the
\* frame timestamps advance.
SpecSteadyFair ==
    /\ SpecSteady
    /\ WF_vars(RunEffect) /\ WF_vars(FrameStep)
    /\ WF_vars(FadeTimeout) /\ WF_vars(Tick)

\* The reveal has completed: progress is 1 and the Complete flag is set.
Complete == fullyRevealed /\ ProgressIsOne

\* The first frame was stamped early enough for the reveal's duration to
\* elapse within the timestamps the model runs through.
StartedInTime ==
    ~IsNullish(revealStartTs) /\ revealStartTs.val + revealTotalMs <= MaxTime

\* C28: an animating chart that stays mounted with its inputs held gets its
\* first frame, and from there reaches progress 1 with the Complete flag
\* set; once the flag is set no frame callback is waiting or scheduled; a
\* chart that does not animate is Complete and never schedules one.
C28_RevealTerminates ==
    /\ (mounted /\ animate) ~> (~mounted \/ ~IsNullish(revealStartTs))
    /\ (mounted /\ animate /\ StartedInTime) ~> (~mounted \/ Complete)
    /\ [](fullyRevealed => rafQueue = {})
    /\ []((mounted /\ ~animate) => (fullyRevealed /\ rafQueue = {}))
    /\ []((mounted /\ ~animate /\ effectDeps = Deps) => Complete)


\* ---------------------------------------------------------------- claim C29
\* The <clipPath> elements of the page in document order: of each live
\* chart, the actual clip and then the forecast clip.
ClipPaths == {<<i, k>> : i \in {j \in Instances : charts[j].live}, k \in {"actual", "pred"}}

ClipIdOf(el) ==
    IF el[2] = "actual" THEN charts[el[1]].clipActualId ELSE charts[el[1]].clipPredId

DocumentOrder(el) == 2 * el[1] + (IF el[2] = "actual" THEN 0 ELSE 1)

\* The element url(#id) refers to: the first one of the page with that id.
Resolve(id) ==
    LET named == {el \in ClipPaths : ClipIdOf(el) = id}
    IN CHOOSE el \in named : \A other \in named : DocumentOrder(el) <= DocumentOrder(other)

\* The ids of the live charts are pairwise distinct, and the clip reference
\* of each chart's lines resolves to that chart's own clip.
ClipIdsDistinct ==
    /\ \A el, other \in ClipPaths : el # other => ClipIdOf(el) # ClipIdOf(other)
    /\ \A el \in ClipPaths : Resolve(ClipIdOf(el)) = el

\* Chart j, its waiting frame callback and its waiting timeout are as before.
Untouched(j) ==
    /\ charts'[j] = charts[j]
    /\ {f \in frameQueue' : f.owner = j} = {f \in frameQueue : f.owner = j}
    /\ {t \in timeouts' : t.owner = j} = {t \in timeouts : t.owner = j}

\* C29: with several charts on a page, a mount, frame, restart, fade or
\* teardown of one chart leaves the progress, Complete flag, fade state and
\* pending callbacks of every other chart as they were, and the clip ids of
\* the live charts, drawn from the shared counter, are pairwise distinct, so
\* each chart's lines are clipped by its own clip rectangles.
C29_InstancesIsolated ==
    /\ []ClipIdsDistinct
    /\ [][\A i \in Instances :
            ChartStep(i) => \A j \in Instances \ {i} : Untouched(j)]_vars

\* Two charts are live, the first one remounted and half-way through its
\* reveal, the second one fully revealed and faded in.
C29_Witness ==
    /\ charts # <<>> /\ gid = 6
    /\ charts[1].live /\ charts[1].animate /\ ~charts[1].fullyRevealed
    /\ charts[1].progressX.tag = "num" /\ charts[1].progressX.val > plotX1
    /\ charts[2].live /\ charts[2].animate /\ charts[2].fullyRevealed
    /\ charts[2].showNoteHist


\* ---------------------------------------------------------------- claim C30
\* C30: the cleanup of the draw effect cancels every timeout its run set:
\* only the current run of a mounted component has a timeout waiting,
\* onDrawEnd is called at most once per draw animation started, and never
\* for a run whose cleanup has run (after an unmount or a restart).
C30_CleanupCancelsDraw ==
    /\ \A tm \in drawTimers : drawMounted /\ tm.run = drawCurrent
    /\ \A run \in 1..MaxDraws : drawEnds[run] <= 1
    /\ lateEnds = {}
====
